---------------------------- MODULE Spec2Model ----------------------------
(***************************************************************************)
(* Verification model of the b2beast research-api: the two durable         *)
(* workflows (PdfParserWorkflow, LegalComplianceWorkflow), the routes that *)
(* create and patch their job records, and the pure batching helpers       *)
(* (chunkArray, batchByTokenLimit).                                        *)
(*                                                                         *)
(* A workflow is a sequential program whose side effects happen inside     *)
(* named steps.  The step runtime records the outcome of a step under its  *)
(* name; after an interruption run() starts again from the top and a step  *)
(* whose outcome is recorded returns (or re-throws) it without running its *)
(* body.                                                                   *)
(***************************************************************************)
EXTENDS Integers, Sequences, FiniteSets, TLC

(***************************************************************************)
(* Bounds of the model.                                                    *)
(***************************************************************************)
NJobs == 2              \* job slots
MaxPages == 7           \* totalPages of a document ranges over 1..MaxPages
BigPage == 8            \* blocks on a page of a dense document
PatchPages == 2         \* PATCH requests come for documents of at most this many pages
PairPages == 3          \* pages of each of two documents analysed at the same time
MaxContractBlocks == 6  \* contract blocks of a compliance job: 1..MaxContractBlocks,
LargeContract == 251    \* or LargeContract blocks
ManyArticles == 9       \* relevant articles per block in the "many" answer
ReorderWindow == 2      \* a step of a wave ends only while every executing step of
                        \* the wave has an index less than this much below its own
MaxCrashes == 1         \* interruptions of job 1
MaxPatches == 1         \* PATCH requests
MaxLen == 4             \* chunkArray: longest input array
MaxSize == 4            \* chunkArray: largest chunk size
MaxArticles == 4        \* batchByTokenLimit: longest article list
MaxBody == 17           \* batchByTokenLimit: longest article body, in characters
MaxBudget == 4          \* batchByTokenLimit: largest token limit
MaxSelected == 3        \* article selection: longest list of loaded articles
MaxBodyUnits == 6       \* article selection: longest article body, in units of
BodyUnit == 80000       \* this many characters (20000 tokens)
MaxReviews == 5         \* summary: longest list of reviews
MaxContent == 3         \* reviewBlock: longest block content, in characters
MaxOutside == 2         \* reviewBlock: how far outside 0..MaxContent a position
                        \* of the answer may lie

(***************************************************************************)
(* Program constants.                                                      *)
(***************************************************************************)
PAGES_PER_BATCH == 5
REVIEW_BATCH_SIZE == 30
MAX_PARALLEL_PHASE1 == 50
MAX_PARALLEL_PHASE2 == 50
CONTRACT_BLOCKS_PER_BATCH == 5
CHARS_PER_TOKEN == 4
TOKEN_LIMIT == 200000
PHASE1_LEGAL_TOKENS == 160000
ENABLE_BGB == FALSE
ENABLE_HGB == TRUE

Jobs == 1..NJobs
Null == "null"
Statuses == {"pending", "in_progress", "completed", "failed"}
Terminal == {"completed", "failed"}

Min(a, b) == IF a < b THEN a ELSE b

Max(a, b) == IF a > b THEN a ELSE b

(***************************************************************************)
(* Math.round(num / den) for num >= 0, den > 0: ties round up.             *)
(***************************************************************************)
MathRound(num, den) == (2 * num + den) \div (2 * den)

\* Math.ceil(num / den) for num >= 0, den > 0
MathCeil(num, den) == (num + den - 1) \div den

(***************************************************************************)
(* Array.prototype.slice(from, to) on a 0-based array held as a sequence.  *)
(***************************************************************************)
Slice(array, from, to) == SubSeq(array, from + 1, Min(to, Len(array)))

(***************************************************************************)
(* chunkArray: for (i = 0; i < array.length; i += size)                    *)
(*               chunks.push(array.slice(i, i + size))                     *)
(***************************************************************************)
RECURSIVE ChunkFrom(_, _, _)
ChunkFrom(array, size, i) ==
  IF i < Len(array)
  THEN <<Slice(array, i, i + size)>> \o ChunkFrom(array, size, i + size)
  ELSE <<>>

\* a chunkArray that loses the shorter last slice
ChunkArrayDropTail(array, size) ==
  LET all == ChunkFrom(array, size, 0)
  IN  IF all # <<>> /\ Len(all[Len(all)]) < size
      THEN SubSeq(all, 1, Len(all) - 1) ELSE all

chunkArray(array, size) == ChunkFrom(array, size, 0)

(***************************************************************************)
(* approximateTokenCount: Math.ceil(text.length / 4), on the length.       *)
(***************************************************************************)
approximateTokenCount(textLength) == MathCeil(textLength, CHARS_PER_TOKEN)

\* `${article.name} ${article.title || ""} ${article.body || ""}`
ArticleTextLength(article) ==
  article.nameLen + 1 + article.titleLen + 1 + article.bodyLen

ArticleTokens(article) == approximateTokenCount(ArticleTextLength(article))

(***************************************************************************)
(* batchByTokenLimit: one pass over the articles with the loop state       *)
(* (batches, currentBatch, currentTokens).                                 *)
(***************************************************************************)
\* a loop body that closes the batch only after the limit is already passed
BatchStepLate(st, article, tokenLimit) ==
  LET articleTokens == ArticleTokens(article)
  IN  IF st.currentTokens > tokenLimit /\ Len(st.currentBatch) > 0
      THEN [batches |-> Append(st.batches, st.currentBatch),
            currentBatch |-> <<article>>,
            currentTokens |-> articleTokens]
      ELSE [batches |-> st.batches,
            currentBatch |-> Append(st.currentBatch, article),
            currentTokens |-> st.currentTokens + articleTokens]

BatchStep(st, article, tokenLimit) ==
  LET articleTokens == ArticleTokens(article)
  IN  IF st.currentTokens + articleTokens > tokenLimit /\ Len(st.currentBatch) > 0
      THEN [batches |-> Append(st.batches, st.currentBatch),
            currentBatch |-> <<article>>,
            currentTokens |-> articleTokens]
      ELSE [batches |-> st.batches,
            currentBatch |-> Append(st.currentBatch, article),
            currentTokens |-> st.currentTokens + articleTokens]

RECURSIVE BatchLoop(_, _, _, _)
BatchLoop(st, articles, k, tokenLimit) ==
  IF k > Len(articles) THEN st
  ELSE BatchLoop(BatchStep(st, articles[k], tokenLimit), articles, k + 1, tokenLimit)

\* a batchByTokenLimit that returns without adding the batch still open
batchByTokenLimitOpenBatchLost(articles, tokenLimit) ==
  BatchLoop([batches |-> <<>>, currentBatch |-> <<>>, currentTokens |-> 0],
            articles, 1, tokenLimit).batches

batchByTokenLimit(articles, tokenLimit) ==
  LET st == BatchLoop([batches |-> <<>>, currentBatch |-> <<>>, currentTokens |-> 0],
                      articles, 1, tokenLimit)
  IN  IF Len(st.currentBatch) > 0
      THEN Append(st.batches, st.currentBatch)
      ELSE st.batches

(***************************************************************************)
(* The selection of the legal context in identifyRelevantArticlesBatch:    *)
(* two nested loops with the loop state (selectedArticles,                 *)
(* currentLegalTokens).                                                    *)
(***************************************************************************)
\* `[${article.source}] ${article.name} - ${article.title || "Untitled"}:\n${body}`
\* where body is article.body with its tags replaced by blanks, trimmed
ContextTextLength(article) ==
  5 + 1 + article.nameLen + 3
    + (IF article.titleLen = 0 THEN 8 ELSE article.titleLen) + 2 + article.strippedLen

ContextTokens(article) == approximateTokenCount(ContextTextLength(article))

\* for (const article of batch): break at the first article that does not fit
RECURSIVE SelectInBatch(_, _, _)
SelectInBatch(st, batch, k) ==
  IF k > Len(batch) THEN st
  ELSE LET articleTokens == ContextTokens(batch[k])
       IN  IF st.currentLegalTokens + articleTokens > PHASE1_LEGAL_TOKENS
           THEN st
           ELSE SelectInBatch(
                  [selectedArticles |-> Append(st.selectedArticles, batch[k]),
                   currentLegalTokens |-> st.currentLegalTokens + articleTokens],
                  batch, k + 1)

\* for (const batch of legalBatches): break when the budget is filled
RECURSIVE SelectLoop(_, _, _)
SelectLoop(st, legalBatches, b) ==
  IF b > Len(legalBatches) THEN st
  ELSE LET next == SelectInBatch(st, legalBatches[b], 1)
       IN  IF next.currentLegalTokens >= PHASE1_LEGAL_TOKENS THEN next
           ELSE SelectLoop(next, legalBatches, b + 1)

SelectArticles(legalBatches) ==
  SelectLoop([selectedArticles |-> <<>>, currentLegalTokens |-> 0], legalBatches, 1)
    .selectedArticles


(***************************************************************************)
(* reviewBlock: the span of the review, from the positions of the answer.  *)
(***************************************************************************)
\* Math.max(0, Math.min(position, contentLength))
Clamp(position, contentLength) == Max(0, Min(position, contentLength))

\* a span computation without the exchange of start and end
ReviewSpanUnordered(object, contentLength) ==
  LET start == Clamp(object.start, contentLength)
      end == Clamp(object.end, contentLength)
      whole == object.severity = "safe" /\ (start = end \/ end = 0)
  IN  [start |-> IF whole THEN 0 ELSE start,
       end |-> Min(IF whole THEN contentLength ELSE end, contentLength)]

\* lines 526-546: clamp, exchange when start > end, the whole block for a safe
\* answer with an empty span, clamp end again
ReviewSpan(object, contentLength) ==
  LET clampedStart == Clamp(object.start, contentLength)
      clampedEnd == Clamp(object.end, contentLength)
      start == IF clampedStart > clampedEnd THEN clampedEnd ELSE clampedStart
      end == IF clampedStart > clampedEnd THEN clampedStart ELSE clampedEnd
      whole == object.severity = "safe" /\ (start = end \/ end = 0)
  IN  [start |-> IF whole THEN 0 ELSE start,
       end |-> Min(IF whole THEN contentLength ELSE end, contentLength)]

\* the review reviewBlock returns for an answer of the classifier
ReviewOf(blockIndex, object, contentLength) ==
  LET span == ReviewSpan(object, contentLength)
  IN  [blockIndex |-> blockIndex, severity |-> object.severity,
       start |-> span.start, end |-> span.end]

(***************************************************************************)
(* generateDocumentSummary: the issues given to the summarization call.    *)
(***************************************************************************)
severityOrder(severity) ==
  CASE severity = "high" -> 3 [] severity = "elevated" -> 2
    [] severity = "medium" -> 1 [] severity = "safe" -> 0

\* .sort((a, b) => severityOrder[b.severity] - severityOrder[a.severity]): stable
RECURSIVE SortBySeverity(_)
SortBySeverity(list) ==
  IF list = <<>> THEN <<>>
  ELSE LET rest == SortBySeverity(Tail(list))
           x == Head(list)
           before == SelectSeq(rest, LAMBDA r :
                       severityOrder(x.severity) - severityOrder(r.severity) < 0)
           after == SelectSeq(rest, LAMBDA r :
                      ~(severityOrder(x.severity) - severityOrder(r.severity) < 0))
       IN  before \o <<x>> \o after

\* a selection over the reviews of every severity
TopIssuesOfAll(list) == Slice(SortBySeverity(list), 0, 3)

\* reviews.filter(high or elevated).sort(...).slice(0, 3)
TopIssues(list) ==
  Slice(SortBySeverity(SelectSeq(list, LAMBDA r : r.severity = "high"
                                                  \/ r.severity = "elevated")),
        0, 3)

(***************************************************************************)
(* State.                                                                  *)
(***************************************************************************)
VARIABLES
  scn,       \* the scenario: which job slots are used and how
  payload,   \* payload[j]: the workflow parameters of job j (event.payload)
  row,       \* row[j]: the job record (research or legal_compliance row)
  route,     \* route[j]: position of the POST request that creates job j
  wf,        \* wf[j]: position and local variables of run() of job j
  log,       \* log[j]: recorded step outcomes of job j, by step name
  running,   \* running[j]: names of the parallel steps of job j now executing
  calls,     \* calls[j]: inference calls in flight inside a review-batch step
  reran,     \* reran[j]: a step body ran although its outcome was on record
  effects,   \* effects[j]: steps whose update of the job record was made
  crashes,   \* interruptions so far
  patches,   \* PATCH requests so far
  arr, csize, chunks,            \* chunkArray: input, input, output
  legalArticles, limit, batches, \* batchByTokenLimit: input, input, output
  selectedArticles,              \* the legal context selected from the batches
  allReviews, highSeverityIssues, \* generateDocumentSummary: input, selection
  object, contentLength, review, \* reviewBlock: answer, input, output
  called                         \* whether the pure function has been applied

wfVars == <<scn, payload, row, route, wf, log, running, calls, reran, effects, crashes,
           patches>>
pureVars == <<arr, csize, chunks, legalArticles, limit, batches, selectedArticles,
             allReviews, highSeverityIssues, object, contentLength, review, called>>
vars == <<wfVars, pureVars>>

(***************************************************************************)
(* Job records: schema defaults and the two inserts.                       *)
(***************************************************************************)
NoResults == [set |-> FALSE]

NoRow ==
  [exists |-> FALSE, status |-> "pending", currentStage |-> Null, progress |-> 0,
   results |-> NoResults, errorMessage |-> Null, workflowId |-> Null]

\* POST /research: insert(research).values({status: 'in_progress', currentStage: 'uploading'})
InsertResearch ==
  [NoRow EXCEPT !.exists = TRUE, !.status = "in_progress", !.currentStage = "uploading"]

\* POST /research/:id/compliance-check: insert(legalCompliance).values({status: 'pending', ...})
InsertCompliance ==
  [NoRow EXCEPT !.exists = TRUE, !.status = "pending", !.currentStage = Null,
                !.progress = 0, !.workflowId = ""]

\* an update that adds the progress given to the progress on record
ApplyUpdateAdditive(r, upd) ==
  IF r.exists
  THEN [f \in DOMAIN r |->
          IF f \in DOMAIN upd
          THEN IF f = "progress" THEN r[f] + upd[f] ELSE upd[f]
          ELSE r[f]]
  ELSE r

\* db.update(table).set(upd).where(eq(id, ...)): the fields of upd, and no others
ApplyUpdate(r, upd) ==
  IF r.exists
  THEN [f \in DOMAIN r |-> IF f \in DOMAIN upd THEN upd[f] ELSE r[f]]
  ELSE r

(***************************************************************************)
(* The step runtime (step.do).                                             *)
(***************************************************************************)
Name(prefix, n) == <<prefix, n>>

Stopped(j) == wf[j].pc \in {"none", "done", "threw"}

Ok(v) == [ok |-> TRUE, applied |-> TRUE, err |-> "none", val |-> v]
Failed(e, a) == [ok |-> FALSE, applied |-> a, err |-> e, val |-> <<>>]

\* a step whose body is one database update: it succeeds, or it fails with the
\* update not made, or it fails (timeout, result not persisted) with it made
DbOutcomes == {Ok(<<>>), Failed("db", FALSE), Failed("step", TRUE)}

Throw(w, o, handler) == [w EXCEPT !.pc = handler, !.error = o.err]

RECURSIVE Flatten(_)
Flatten(seqs) == IF seqs = <<>> THEN <<>> ELSE Head(seqs) \o Flatten(Tail(seqs))

(***************************************************************************)
(* PdfParserWorkflow.run                                                   *)
(***************************************************************************)
InitialPdf ==
  [pc |-> "update-status-parsing", batchIndex |-> 0, allBlocks |-> <<>>,
   allReviews |-> <<>>, documentSummary |-> Null, error |-> "none"]

NoWorkflow == [pc |-> "none", error |-> "none"]

\* Array.from({length: totalPages}, (_, i) => i + 1) in chunks of PAGES_PER_BATCH
pageBatches(j) ==
  chunkArray([i \in 1..payload[j].totalPages |-> i], PAGES_PER_BATCH)

\* the paragraphs the text extraction finds on a page of the document
BlocksOnPage(doc, pageNumber) ==
  CASE doc = "empty" -> 0
    [] doc = "dense" -> BigPage
    [] doc = "mixed" -> IF pageNumber % 2 = 1 THEN BigPage ELSE 0

\* parsePdfPage: paragraphs.map((block, index) => ({pageNumber, anchorId: p{page}-{index}}))
BlocksOfPage(pageNumber, n) ==
  [i \in 1..n |-> [pageNumber |-> pageNumber, index |-> i - 1]]

\* the body of step parse-page-{pageNumber}: getObject, then parsePdfPage
PageOutcomes(j, pageNumber) ==
  {Ok(BlocksOfPage(pageNumber, BlocksOnPage(payload[j].doc, pageNumber))),
   Failed("parse", FALSE)}

\* a sort by page number, descending
RECURSIVE SortByPageDescending(_)
SortByPageDescending(results) ==
  IF results = <<>> THEN <<>>
  ELSE LET rest == SortByPageDescending(Tail(results))
           x == Head(results)
           before == SelectSeq(rest, LAMBDA r : r.pageNumber > x.pageNumber)
           after == SelectSeq(rest, LAMBDA r : ~(r.pageNumber > x.pageNumber))
       IN  before \o <<x>> \o after

\* batchResults.sort((a, b) => a.pageNumber - b.pageNumber): stable
RECURSIVE SortByPage(_)
SortByPage(results) ==
  IF results = <<>> THEN <<>>
  ELSE LET rest == SortByPage(Tail(results))
           x == Head(results)
           before == SelectSeq(rest, LAMBDA r : r.pageNumber < x.pageNumber)
           after == SelectSeq(rest, LAMBDA r : ~(r.pageNumber < x.pageNumber))
       IN  before \o <<x>> \o after

\* for (const result of batchResults) allBlocks.push(...result.blocks)
PushBlocks(allBlocks, batchResults) ==
  allBlocks \o Flatten([k \in 1..Len(batchResults) |-> batchResults[k].blocks])

\* what the promise of step parse-page-{pageNumber} resolves to: the result
\* recorded for the step, whether its body ran in this execution or not
PageResult(lg, pageNumber) ==
  [pageNumber |-> pageNumber, blocks |-> lg[Name("parse-page", pageNumber)].val]

reviewBatches(w) == chunkArray(w.allBlocks, REVIEW_BATCH_SIZE)

\* reviews that carry the index of the block within its batch
ReviewsOfBatchLocalIndex(w) ==
  [k \in 1..Len(reviewBatches(w)[w.batchIndex + 1]) |-> [blockIndex |-> k - 1]]

\* reviewBlock(block, globalIndex), globalIndex = batchIndex * 30 + idx
ReviewsOfBatch(w) ==
  [k \in 1..Len(reviewBatches(w)[w.batchIndex + 1]) |->
     [blockIndex |-> w.batchIndex * REVIEW_BATCH_SIZE + (k - 1)]]

\* a parsing progress that counts the batches still to do
ParsingProgressRemaining(batchIndex, nBatches) ==
  MathRound(50 * (nBatches - batchIndex), nBatches)

\* Math.round((50 * (batchIndex + 1)) / pageBatches.length)
ParsingProgress(batchIndex, nBatches) == MathRound(50 * (batchIndex + 1), nBatches)

\* 50 + Math.round((50 * (batchIndex + 1)) / batches.length)
ReviewProgress(batchIndex, nBatches) == 50 + MathRound(50 * (batchIndex + 1), nBatches)

\* the steps of run() whose body is a single update of the research row
PdfDbPcs ==
  {"update-status-parsing", "update-progress-parsing-batch", "update-status-reviewing",
   "update-progress-batch", "update-status-summarizing", "finalize-results",
   "mark-workflow-failed"}

\* the steps run() awaits one at a time, and the waves of parallel steps
PdfSeqPcs == PdfDbPcs \cup {"review-batch", "generate-summary"}
PdfWavePcs == {"parse-pages"}

\* step names in which the progress steps of the review loop do not carry the
\* index of the batch
PdfStepNameUnindexed(w) ==
  IF w.pc \in {"update-progress-parsing-batch", "review-batch"}
  THEN Name(w.pc, w.batchIndex) ELSE Name(w.pc, 0)

PdfStepName(w) ==
  IF w.pc \in {"update-progress-parsing-batch", "update-progress-batch", "review-batch"}
  THEN Name(w.pc, w.batchIndex) ELSE Name(w.pc, 0)

\* what makes generateObject of reviewBlock throw: the call fails, or the answer
\* does not parse or validate against reviewSchema; reviewBlock rethrows both
ReviewErrors == {"review-call", "review-structuring"}

\* the body of step generate-summary: generateDocumentSummary, which throws
\* when the inference call fails
SummaryOutcomes == {Ok("summary"), Failed("summary", FALSE)}

PdfResults(j, w) ==
  [set |-> TRUE, totalPages |-> payload[j].totalPages, totalBlocks |-> Len(w.allBlocks),
   blocks |-> w.allBlocks, reviews |-> w.allReviews]

\* updates in which the progress steps of the review loop still write the
\* stage of the loop before
PdfWriteStale(j, w) ==
  CASE w.pc = "update-status-parsing" ->
         [status |-> "in_progress", currentStage |-> "parsing", progress |-> 0]
    [] w.pc = "update-progress-parsing-batch" ->
         [currentStage |-> "parsing",
          progress |-> ParsingProgress(w.batchIndex, Len(pageBatches(j)))]
    [] w.pc = "update-status-reviewing" ->
         [currentStage |-> "reviewing", progress |-> 50]
    [] w.pc = "update-progress-batch" ->
         [currentStage |-> "parsing",
          progress |-> ReviewProgress(w.batchIndex, Len(reviewBatches(w)))]
    [] w.pc = "update-status-summarizing" ->
         [currentStage |-> "summarizing"]
    [] w.pc = "finalize-results" ->
         [status |-> "completed", currentStage |-> "completed", progress |-> 100,
          results |-> PdfResults(j, w)]
    [] w.pc = "mark-workflow-failed" ->
         [status |-> "failed", currentStage |-> "error", errorMessage |-> w.error]

\* the .set({...}) of each of those steps
PdfWrite(j, w) ==
  CASE w.pc = "update-status-parsing" ->
         [status |-> "in_progress", currentStage |-> "parsing", progress |-> 0]
    [] w.pc = "update-progress-parsing-batch" ->
         [currentStage |-> "parsing",
          progress |-> ParsingProgress(w.batchIndex, Len(pageBatches(j)))]
    [] w.pc = "update-status-reviewing" ->
         [currentStage |-> "reviewing", progress |-> 50]
    [] w.pc = "update-progress-batch" ->
         [currentStage |-> "reviewing",
          progress |-> ReviewProgress(w.batchIndex, Len(reviewBatches(w)))]
    [] w.pc = "update-status-summarizing" ->
         [currentStage |-> "summarizing"]
    [] w.pc = "finalize-results" ->
         [status |-> "completed", currentStage |-> "completed", progress |-> 100,
          results |-> PdfResults(j, w)]
    [] w.pc = "mark-workflow-failed" ->
         [status |-> "failed", currentStage |-> "error", errorMessage |-> w.error]

AfterReviewing(w) ==
  IF Len(w.allReviews) > 0 THEN [w EXCEPT !.pc = "update-status-summarizing"]
  ELSE [w EXCEPT !.pc = "finalize-results"]

\* where run() continues when the step at w.pc returns val
PdfAfter(j, w, val) ==
  CASE w.pc = "update-status-parsing" ->
         IF Len(pageBatches(j)) > 0
         THEN [w EXCEPT !.pc = "parse-pages", !.batchIndex = 0]
         ELSE [w EXCEPT !.pc = "update-status-reviewing"]
    [] w.pc = "update-progress-parsing-batch" ->
         IF w.batchIndex + 1 < Len(pageBatches(j))
         THEN [w EXCEPT !.pc = "parse-pages", !.batchIndex = @ + 1]
         ELSE [w EXCEPT !.pc = "update-status-reviewing"]
    [] w.pc = "update-status-reviewing" ->
         IF Len(w.allBlocks) > 0
         THEN [w EXCEPT !.pc = "review-batch", !.batchIndex = 0]
         ELSE AfterReviewing(w)
    [] w.pc = "review-batch" ->
         [w EXCEPT !.allReviews = @ \o val, !.pc = "update-progress-batch"]
    [] w.pc = "update-progress-batch" ->
         IF w.batchIndex + 1 < Len(reviewBatches(w))
         THEN [w EXCEPT !.pc = "review-batch", !.batchIndex = @ + 1]
         ELSE AfterReviewing(w)
    [] w.pc = "update-status-summarizing" -> [w EXCEPT !.pc = "generate-summary"]
    [] w.pc = "generate-summary" ->
         [w EXCEPT !.documentSummary = "summary", !.pc = "finalize-results"]
    [] w.pc = "finalize-results" -> [w EXCEPT !.pc = "done"]
    [] w.pc = "mark-workflow-failed" -> [w EXCEPT !.pc = "done"]

\* a catch that lets the review loop go on after a failed review-batch step
PdfHandlerContinues(w) ==
  CASE w.pc = "mark-workflow-failed" -> "threw"
    [] w.pc = "review-batch" -> "update-progress-batch"
    [] OTHER -> "mark-workflow-failed"

\* the catch block of run(): an error thrown inside it leaves run()
PdfHandler(w) == IF w.pc = "mark-workflow-failed" THEN "threw" ELSE "mark-workflow-failed"

\* the parse-page steps of the current wave, in input order
PdfWave(j, w) ==
  LET pages == pageBatches(j)[w.batchIndex + 1]
  IN  [k \in 1..Len(pages) |-> [name |-> Name("parse-page", pages[k]), page |-> pages[k]]]

\* after await Promise.all(pagePromises): sort by page number, push the blocks
PdfJoin(j, w, lg) ==
  LET wave == PdfWave(j, w)
      batchResults == [k \in 1..Len(wave) |-> PageResult(lg, wave[k].page)]
  IN  [w EXCEPT !.allBlocks = PushBlocks(@, SortByPage(batchResults)),
                !.pc = "update-progress-parsing-batch"]

(***************************************************************************)
(* LegalComplianceWorkflow.run                                             *)
(***************************************************************************)
InitialLegal ==
  [pc |-> "update-status-starting", chunkIndex |-> 0, phase1Results |-> <<>>,
   phase2Results |-> <<>>, reviewTasks |-> <<>>, skippedArticles |-> 0, error |-> "none"]

\* event.payload.contractBlocks, each block held as its index in the array
contractBlocks(j) == [i \in 1..payload[j].nBlocks |-> i - 1]

contractBatches(j) == chunkArray(contractBlocks(j), CONTRACT_BLOCKS_PER_BATCH)

\* chunkArray(contractBatches.map((batch, batchIndex) => ({batch, batchIndex})), MAX_PARALLEL_PHASE1)
processingChunks(j) ==
  LET cb == contractBatches(j)
  IN  chunkArray([b \in 1..Len(cb) |-> [batch |-> cb[b], batchIndex |-> b - 1]],
                 MAX_PARALLEL_PHASE1)

\* the legal codes the build enables: ENABLE_BGB and ENABLE_HGB as they are set,
\* or, in the scenario "disabled", both set to false
EnabledCodes ==
  IF scn.mode = "disabled" THEN {}
  ELSE {c \in {"BGB", "HGB"} : (c = "BGB" /\ ENABLE_BGB) \/ (c = "HGB" /\ ENABLE_HGB)}

\* allArticles of loadLegalCodes: the articles of the enabled codes; the corpus
\* holds HGB and BGB articles named 1..ManyArticles
LoadedArticles ==
  {[name |-> n, source |-> s] : n \in 1..ManyArticles, s \in EnabledCodes}

\* a loadLegalCodes without the check that some article was loaded
loadLegalCodesUnchecked == {"none", "load-r2"}

\* how a call of loadLegalCodes ends: it returns the articles ("none"), a file
\* is missing or cannot be read, or no article was loaded because no code is
\* enabled; the catch rethrows both errors
loadLegalCodes ==
  IF LoadedArticles = {} THEN {"load-config"} ELSE {"none", "load-r2"}

\* the catch branch of the structuring pass of identifyRelevantArticlesBatch
FallbackResults(batch, startBlockIndex) ==
  [idx \in 1..Len(batch) |->
     [contractBlockIndex |-> startBlockIndex + (idx - 1), hasViolation |-> FALSE,
      relevantArticles |-> <<>>, needsDeepReview |-> FALSE]]

\* answers of the inference capability that flag every block of the batch: one
\* naming an article of the loaded code, one of the disabled code and one that
\* is in no code; and one naming ManyArticles articles of the loaded code
FewRelevant ==
  <<[articleName |-> 1, source |-> "HGB"], [articleName |-> 1, source |-> "BGB"],
    [articleName |-> 0, source |-> "HGB"]>>

ManyRelevant == [n \in 1..ManyArticles |-> [articleName |-> n, source |-> "HGB"]]

FlaggedResults(batch, startBlockIndex, relevant) ==
  [idx \in 1..Len(batch) |->
     [contractBlockIndex |-> startBlockIndex + (idx - 1), hasViolation |-> TRUE,
      relevantArticles |-> relevant, needsDeepReview |-> TRUE]]

\* an answer that identificationSchema accepts and that is not one result per
\* block: the last block of the batch is left out, the others come last block
\* first, and those with an odd index are not flagged although articles are
\* listed for them
LooseResults(batch, startBlockIndex) ==
  [idx \in 1..(Len(batch) - 1) |->
     LET blockIndex == startBlockIndex + (Len(batch) - 1 - idx)
     IN  [contractBlockIndex |-> blockIndex, hasViolation |-> TRUE,
          relevantArticles |-> FewRelevant, needsDeepReview |-> blockIndex % 2 = 0]]

\* what the first pass and the structuring pass answer for a batch of this
\* contract: the fallback of a failed structuring pass, or every block flagged
Phase1Answer(j, batchIndex, batch, startBlockIndex) ==
  CASE payload[j].oracle = "fallback" -> FallbackResults(batch, startBlockIndex)
    [] payload[j].oracle = "few" -> FlaggedResults(batch, startBlockIndex, FewRelevant)
    [] payload[j].oracle = "many" -> FlaggedResults(batch, startBlockIndex, ManyRelevant)
    [] payload[j].oracle = "loose" -> LooseResults(batch, startBlockIndex)
    [] payload[j].oracle = "mixed" ->
         IF batchIndex % 2 = 0 THEN FlaggedResults(batch, startBlockIndex, FewRelevant)
         ELSE FallbackResults(batch, startBlockIndex)

\* the batches of this contract whose structuring pass (generateObject) fails
StructuringFails(j, batchIndex) ==
  \/ payload[j].oracle = "fallback"
  \/ payload[j].oracle = "mixed" /\ batchIndex % 2 = 1

\* a step body in which a failed structuring pass is rethrown like a failed
\* first pass
Phase1OutcomesRethrows(j, batchIndex) ==
  {Failed(e, FALSE) : e \in loadLegalCodes \ {"none"}}
  \cup (IF "none" \in loadLegalCodes
        THEN {IF StructuringFails(j, batchIndex) THEN Failed("phase1-structuring", FALSE)
              ELSE Ok(Phase1Answer(j, batchIndex, contractBatches(j)[batchIndex + 1],
                                   batchIndex * CONTRACT_BLOCKS_PER_BATCH)),
              Failed("phase1-call", FALSE)}
        ELSE {})

\* the body of step phase1-batch-{batchIndex}: loadLegalCodes, then
\* identifyRelevantArticlesBatch(batch, startBlockIndex, ...), which throws
\* when the first pass fails
Phase1Outcomes(j, batchIndex) ==
  {Failed(e, FALSE) : e \in loadLegalCodes \ {"none"}}
  \cup (IF "none" \in loadLegalCodes
        THEN {Ok(Phase1Answer(j, batchIndex, contractBatches(j)[batchIndex + 1],
                              batchIndex * CONTRACT_BLOCKS_PER_BATCH)),
              Failed("phase1-call", FALSE)}
        ELSE {})

availableSources == EnabledCodes

\* a derivation loop that drops the articles of codes not loaded without
\* counting them
RECURSIVE TasksOfArticlesUncounted(_, _, _)
TasksOfArticlesUncounted(result, k, acc) ==
  IF k > Len(result.relevantArticles) THEN acc
  ELSE LET article == result.relevantArticles[k]
       IN  IF article.source \notin availableSources
           THEN TasksOfArticlesUncounted(result, k + 1, acc)
           ELSE TasksOfArticlesUncounted(result, k + 1,
                  [acc EXCEPT !.reviewTasks =
                     Append(@, [blockIndex |-> result.contractBlockIndex, article |-> article])])

\* the task derivation loop of run(): (reviewTasks, skippedArticles)
RECURSIVE TasksOfArticles(_, _, _)
TasksOfArticles(result, k, acc) ==
  IF k > Len(result.relevantArticles) THEN acc
  ELSE LET article == result.relevantArticles[k]
       IN  IF article.source \notin availableSources
           THEN TasksOfArticles(result, k + 1, [acc EXCEPT !.skippedArticles = @ + 1])
           ELSE TasksOfArticles(result, k + 1,
                  [acc EXCEPT !.reviewTasks =
                     Append(@, [blockIndex |-> result.contractBlockIndex, article |-> article])])

RECURSIVE TasksOfResults(_, _, _)
TasksOfResults(results, k, acc) ==
  IF k > Len(results) THEN acc
  ELSE TasksOfResults(results, k + 1, TasksOfArticles(results[k], 1, acc))

DeriveTasks(phase1Results) ==
  TasksOfResults(SelectSeq(phase1Results, LAMBDA r : r.needsDeepReview), 1,
                 [reviewTasks |-> <<>>, skippedArticles |-> 0])

reviewChunks(w) == chunkArray(w.reviewTasks, MAX_PARALLEL_PHASE2)

\* the severity the inference capability finds for an article
SeverityOf(article) ==
  <<"safe", "minor", "moderate", "critical">>[(article.articleName % 4) + 1]

\* what performDeepAnalysis rethrows: the first pass (generateText) fails, or
\* the structuring pass (generateObject) fails
Phase2Errors == {"phase2-call", "phase2-structuring"}

\* allLegalArticles.find(a => a.name === articleName && a.source === source)
fullArticle(task) ==
  {a \in LoadedArticles : a.name = task.article.articleName
                          /\ a.source = task.article.source}

\* a performDeepAnalysis that throws when the article is not found
performDeepAnalysisStrict(task) ==
  IF fullArticle(task) # {}
  THEN {Ok(<<[contractBlockIndex |-> task.blockIndex,
              articleName |-> task.article.articleName,
              source |-> task.article.source,
              severity |-> SeverityOf(task.article)]>>)}
       \cup {Failed(e, FALSE) : e \in Phase2Errors}
  ELSE {Failed("phase2-lookup", FALSE)}

\* performDeepAnalysis(task.block, task.blockIndex, task.article, legalArticles):
\* null (no value), before any inference call, when the article is not found
performDeepAnalysis(task) ==
  IF fullArticle(task) # {}
  THEN {Ok(<<[contractBlockIndex |-> task.blockIndex,
              articleName |-> task.article.articleName,
              source |-> task.article.source,
              severity |-> SeverityOf(task.article)]>>)}
       \cup {Failed(e, FALSE) : e \in Phase2Errors}
  ELSE {Ok(<<>>)}

\* the body of step phase2-task-{taskId}: loadLegalCodes, then performDeepAnalysis
Phase2Outcomes(task) ==
  {Failed(e, FALSE) : e \in loadLegalCodes \ {"none"}}
  \cup (IF "none" \in loadLegalCodes THEN performDeepAnalysis(task) ELSE {})

\* 10 + Math.round((40 * (chunkIndex + 1)) / processingChunks.length)
Phase1Progress(chunkIndex, nChunks) == 10 + MathRound(40 * (chunkIndex + 1), nChunks)

\* 50 + Math.round((40 * (chunkIndex + 1)) / reviewChunks.length)
Phase2Progress(chunkIndex, nChunks) == 50 + MathRound(40 * (chunkIndex + 1), nChunks)

LegalDbPcs ==
  {"update-status-starting", "update-status-phase1", "update-progress-phase1",
   "update-status-phase2", "update-progress-phase2", "finalize-compliance-results",
   "mark-compliance-failed"}

LegalStepName(w) ==
  IF w.pc \in {"update-progress-phase1", "update-progress-phase2"}
  THEN Name(w.pc, w.chunkIndex) ELSE Name(w.pc, 0)

LegalResults(j, w) ==
  [set |-> TRUE, phase1 |-> w.phase1Results, phase2 |-> w.phase2Results,
   totalBlocks |-> payload[j].nBlocks]

LegalWrite(j, w) ==
  CASE w.pc = "update-status-starting" ->
         [status |-> "in_progress", currentStage |-> "compliance_check", progress |-> 0]
    [] w.pc = "update-status-phase1" ->
         [currentStage |-> "identifying_articles", progress |-> 10]
    [] w.pc = "update-progress-phase1" ->
         [progress |-> Phase1Progress(w.chunkIndex, Len(processingChunks(j)))]
    [] w.pc = "update-status-phase2" ->
         [currentStage |-> "deep_analysis", progress |-> 50]
    [] w.pc = "update-progress-phase2" ->
         [progress |-> Phase2Progress(w.chunkIndex, Len(reviewChunks(w)))]
    [] w.pc = "finalize-compliance-results" ->
         [status |-> "completed", currentStage |-> "compliance_completed",
          progress |-> 100, results |-> LegalResults(j, w)]
    [] w.pc = "mark-compliance-failed" ->
         [status |-> "failed", currentStage |-> "error", errorMessage |-> w.error]

LegalSeqPcs == LegalDbPcs
LegalWavePcs == {"phase1-batches", "phase2-tasks"}

\* where run() continues when the step at w.pc returns
LegalAfter(j, w, val) ==
  CASE w.pc = "update-status-starting" -> [w EXCEPT !.pc = "update-status-phase1"]
    [] w.pc = "update-status-phase1" ->
         IF Len(processingChunks(j)) > 0
         THEN [w EXCEPT !.pc = "phase1-batches", !.chunkIndex = 0]
         ELSE [w EXCEPT !.pc = "update-status-phase2"]
    [] w.pc = "update-progress-phase1" ->
         IF w.chunkIndex + 1 < Len(processingChunks(j))
         THEN [w EXCEPT !.pc = "phase1-batches", !.chunkIndex = @ + 1]
         ELSE [w EXCEPT !.pc = "update-status-phase2"]
    [] w.pc = "update-status-phase2" ->
         LET derived == DeriveTasks(w.phase1Results)
             next == [w EXCEPT !.reviewTasks = derived.reviewTasks,
                               !.skippedArticles = derived.skippedArticles]
         IN  IF Len(derived.reviewTasks) > 0
             THEN [next EXCEPT !.pc = "phase2-tasks", !.chunkIndex = 0]
             ELSE [next EXCEPT !.pc = "finalize-compliance-results"]
    [] w.pc = "update-progress-phase2" ->
         IF w.chunkIndex + 1 < Len(reviewChunks(w))
         THEN [w EXCEPT !.pc = "phase2-tasks", !.chunkIndex = @ + 1]
         ELSE [w EXCEPT !.pc = "finalize-compliance-results"]
    [] w.pc = "finalize-compliance-results" -> [w EXCEPT !.pc = "done"]
    [] w.pc = "mark-compliance-failed" -> [w EXCEPT !.pc = "done"]

\* a catch that lets the identification loop go on after a failed wave
LegalHandlerContinues(w) ==
  CASE w.pc = "mark-compliance-failed" -> "threw"
    [] w.pc \in {"phase1-batches", "phase1-join"} -> "update-progress-phase1"
    [] OTHER -> "mark-compliance-failed"

LegalHandler(w) ==
  IF w.pc = "mark-compliance-failed" THEN "threw" ELSE "mark-compliance-failed"

\* the steps of the current wave, in input order
LegalWave(j, w) ==
  IF w.pc \in {"phase1-batches", "phase1-join"}
  THEN LET chunk == processingChunks(j)[w.chunkIndex + 1]
       IN  [k \in 1..Len(chunk) |-> [name |-> Name("phase1-batch", chunk[k].batchIndex)]]
  ELSE LET chunk == reviewChunks(w)[w.chunkIndex + 1]
       IN  [k \in 1..Len(chunk) |->
              [name |-> Name("phase2-task", w.chunkIndex * MAX_PARALLEL_PHASE2 + (k - 1))]]

\* after await Promise.all(chunkPromises): push the results in input order;
\* phase 2 drops the null results
LegalJoin(j, w, lg) ==
  LET wave == LegalWave(j, w)
      values == Flatten([k \in 1..Len(wave) |-> lg[wave[k].name].val])
  IN  IF w.pc \in {"phase1-batches", "phase1-join"}
      THEN [w EXCEPT !.phase1Results = @ \o values, !.pc = "update-progress-phase1"]
      ELSE [w EXCEPT !.phase2Results = @ \o values, !.pc = "update-progress-phase2"]

(***************************************************************************)
(* Both workflows: run() from a position on, reading recorded steps.       *)
(***************************************************************************)
IsPdf(j) == payload[j].kind = "pdf"

SeqPcs(j) == IF IsPdf(j) THEN PdfSeqPcs ELSE LegalSeqPcs
WavePcs(j) == IF IsPdf(j) THEN PdfWavePcs ELSE LegalWavePcs
WaitPcs == {"parse-join", "phase1-join", "phase2-join"}
StepName(j, w) == IF IsPdf(j) THEN PdfStepName(w) ELSE LegalStepName(w)
Handler(j, w) == IF IsPdf(j) THEN PdfHandler(w) ELSE LegalHandler(w)
After(j, w, val) == IF IsPdf(j) THEN PdfAfter(j, w, val) ELSE LegalAfter(j, w, val)
Wave(j, w) == IF IsPdf(j) THEN PdfWave(j, w) ELSE LegalWave(j, w)
Join(j, w, lg) == IF IsPdf(j) THEN PdfJoin(j, w, lg) ELSE LegalJoin(j, w, lg)
Write(j, w) == IF IsPdf(j) THEN PdfWrite(j, w) ELSE LegalWrite(j, w)
DbPcs(j) == IF IsPdf(j) THEN PdfDbPcs ELSE LegalDbPcs

WaitPc(pc) ==
  CASE pc = "parse-pages" -> "parse-join"
    [] pc = "phase1-batches" -> "phase1-join"
    [] pc = "phase2-tasks" -> "phase2-join"

\* the outcome of a step reaches run(): the value, or the error thrown
Return(j, w, o) == IF o.ok THEN After(j, w, o.val) ELSE Throw(w, o, Handler(j, w))

WaveNames(j, w) == LET wave == Wave(j, w) IN {wave[k].name : k \in 1..Len(wave)}

\* the first step of the wave, in input order, that is recorded as failed
FirstFailed(j, w, lg) ==
  LET wave == Wave(j, w)
      ks == {k \in 1..Len(wave) : wave[k].name \in DOMAIN lg /\ ~lg[wave[k].name].ok}
  IN  IF ks = {} THEN 0 ELSE CHOOSE k \in ks : \A m \in ks : k <= m

WaveRecordedOk(j, w, lg) ==
  LET names == WaveNames(j, w)
  IN  \A name \in names : name \in DOMAIN lg /\ lg[name].ok

\* step.do(name, ...) of a step with a recorded outcome returns (or throws)
\* that outcome at once and does not run the body: run() goes on to the first
\* step that has no record, or to the first wave that is not wholly recorded
RECURSIVE Replay(_, _, _)
Replay(j, w, lg) ==
  IF w.pc \in SeqPcs(j)
  THEN IF StepName(j, w) \in DOMAIN lg
       THEN Replay(j, Return(j, w, lg[StepName(j, w)]), lg)
       ELSE w
  ELSE IF w.pc \in WavePcs(j) /\ WaveRecordedOk(j, w, lg)
       THEN Replay(j, Join(j, w, lg), lg)
       ELSE w

(***************************************************************************)
(* Steps of run().  A step body that runs leaves its outcome on record.    *)
(***************************************************************************)
Initial(kind) == IF kind = "pdf" THEN InitialPdf ELSE InitialLegal

Active(j) == ~Stopped(j)

\* the outcome o of step name is recorded and reaches run()
Finish(j, name, o, w) ==
  LET lg == (name :> o) @@ log[j]
  IN  /\ log' = [log EXCEPT ![j] = lg]
      /\ reran' = [reran EXCEPT ![j] = @ \/ name \in DOMAIN log[j]]
      /\ wf' = [wf EXCEPT ![j] = Replay(j, Return(j, w, o), lg)]

\* a step whose body is one update of the job record; the instance ends when
\* run() returns or throws, and what it left executing ends with it
DbStep(j) ==
  /\ Active(j) /\ wf[j].pc \in DbPcs(j)
  /\ \E o \in DbOutcomes :
       /\ Finish(j, StepName(j, wf[j]), o, wf[j])
       /\ row' = [row EXCEPT ![j] = IF o.applied THEN ApplyUpdate(@, Write(j, wf[j]))
                                    ELSE @]
       /\ effects' = [effects EXCEPT ![j] = IF o.applied THEN @ \cup {StepName(j, wf[j])}
                                            ELSE @]
  /\ running' = [running EXCEPT ![j] = IF wf'[j].pc \in {"done", "threw"} THEN {} ELSE @]
  /\ calls' = [calls EXCEPT ![j] = IF wf'[j].pc \in {"done", "threw"}
                                   THEN [pending |-> 0, stray |-> 0] ELSE @]
  /\ UNCHANGED <<scn, payload, route, crashes, patches, pureVars>>

PdfDbStep(j) == IsPdf(j) /\ DbStep(j)

LegalDbStep(j) == payload[j].kind = "legal" /\ DbStep(j)

\* a dispatch that runs the body of every step of the wave, recorded or not
DispatchWholeWave(j) ==
  /\ Active(j) /\ wf[j].pc \in WavePcs(j)
  /\ running' = [running EXCEPT ![j] = @ \cup WaveNames(j, wf[j])]
  /\ LET failed == FirstFailed(j, wf[j], log[j])
     IN  wf' = [wf EXCEPT ![j] =
                  IF failed = 0 THEN [@ EXCEPT !.pc = WaitPc(wf[j].pc)]
                  ELSE Replay(j, Throw(@, log[j][Wave(j, @)[failed].name], Handler(j, @)),
                              log[j])]
  /\ UNCHANGED <<scn, payload, row, route, log, calls, reran,
                 effects, crashes, patches, pureVars>>

\* items.map(item => step.do(name, ...)): the bodies of the steps that have no
\* record start; a step recorded as failed rejects Promise.all at once
Dispatch(j) ==
  /\ Active(j) /\ wf[j].pc \in WavePcs(j)
  /\ running' = [running EXCEPT ![j] = @ \cup (WaveNames(j, wf[j]) \ DOMAIN log[j])]
  /\ LET failed == FirstFailed(j, wf[j], log[j])
     IN  wf' = [wf EXCEPT ![j] =
                  IF failed = 0 THEN [@ EXCEPT !.pc = WaitPc(wf[j].pc)]
                  ELSE Replay(j, Throw(@, log[j][Wave(j, @)[failed].name], Handler(j, @)),
                              log[j])]
  /\ UNCHANGED <<scn, payload, row, route, log, calls, reran,
                 effects, crashes, patches, pureVars>>

\* the executing steps that may end next
MayEnd(j, name) ==
  /\ name \in running[j]
  /\ \A n \in running[j] : name[2] < n[2] + ReorderWindow

\* the body of a step of the awaited wave ends: the first failure rejects
\* Promise.all and the last success resolves it
StepDone(j, name, outcomes) ==
  /\ wf[j].pc \in WaitPcs /\ MayEnd(j, name)
  /\ running' = [running EXCEPT ![j] = @ \ {name}]
  /\ \E o \in outcomes :
       LET lg == (name :> o) @@ log[j]
       IN  /\ log' = [log EXCEPT ![j] = lg]
           /\ reran' = [reran EXCEPT ![j] = @ \/ name \in DOMAIN log[j]]
           /\ wf' = [wf EXCEPT ![j] =
                IF ~o.ok THEN Replay(j, Throw(@, o, Handler(j, @)), lg)
                ELSE IF WaveRecordedOk(j, @, lg) THEN Replay(j, Join(j, @, lg), lg)
                ELSE @]
  /\ UNCHANGED <<scn, payload, row, route, calls, effects, crashes, patches, pureVars>>

\* pageBatch.map(pageNumber => step.do(`parse-page-${pageNumber}`, ...))
PdfParseDispatch(j) == IsPdf(j) /\ Dispatch(j)

\* the body of a parse-page step ends
PdfPageDone(j) ==
  /\ IsPdf(j)
  /\ \E name \in running[j] : StepDone(j, name, PageOutcomes(j, name[2]))

\* step review-batch-{batchIndex} starts: batch.map((block, idx) => reviewBlock(...))
PdfReviewStart(j) ==
  /\ IsPdf(j) /\ Active(j) /\ wf[j].pc = "review-batch"
  /\ calls' = [calls EXCEPT ![j].pending = Len(ReviewsOfBatch(wf[j]))]
  /\ wf' = [wf EXCEPT ![j].pc = "review-wait"]
  /\ UNCHANGED <<scn, payload, row, route, log, running, reran,
                 effects, crashes, patches, pureVars>>

\* a reviewBlock call of the step returns; the last one resolves Promise.all
\* and the step returns the reviews in input order
PdfReviewReturn(j) ==
  /\ IsPdf(j) /\ Active(j) /\ wf[j].pc = "review-wait" /\ calls[j].pending > 0
  /\ calls' = [calls EXCEPT ![j].pending = @ - 1]
  /\ LET w == [wf[j] EXCEPT !.pc = "review-batch"]
     IN  IF calls[j].pending = 1
         THEN Finish(j, StepName(j, w), Ok(ReviewsOfBatch(w)), w)
         ELSE UNCHANGED <<wf, log, reran>>
  /\ UNCHANGED <<scn, payload, row, route, running, effects, crashes, patches, pureVars>>

\* a reviewBlock call throws: Promise.all rejects and the step fails while the
\* other calls of the batch are still in flight
PdfReviewThrow(j) ==
  /\ IsPdf(j) /\ Active(j) /\ wf[j].pc = "review-wait" /\ calls[j].pending > 0
  /\ calls' = [calls EXCEPT ![j].pending = 0, ![j].stray = @ + calls[j].pending - 1]
  /\ LET w == [wf[j] EXCEPT !.pc = "review-batch"]
     IN  \E e \in ReviewErrors : Finish(j, StepName(j, w), Failed(e, FALSE), w)
  /\ UNCHANGED <<scn, payload, row, route, running, effects, crashes, patches, pureVars>>

\* step generate-summary
PdfSummary(j) ==
  /\ IsPdf(j) /\ Active(j) /\ wf[j].pc = "generate-summary"
  /\ \E o \in SummaryOutcomes : Finish(j, StepName(j, wf[j]), o, wf[j])
  /\ UNCHANGED <<scn, payload, row, route, running, calls,
                 effects, crashes, patches, pureVars>>

\* chunk.map(... => step.do(`phase1-batch-${batchIndex}`, ...))
LegalPhase1Dispatch(j) ==
  payload[j].kind = "legal" /\ wf[j].pc = "phase1-batches" /\ Dispatch(j)

\* the body of a phase1-batch step ends
LegalPhase1Done(j) ==
  /\ payload[j].kind = "legal"
  /\ \E name \in running[j] :
       name[1] = "phase1-batch" /\ StepDone(j, name, Phase1Outcomes(j, name[2]))

\* chunk.map((task, idx) => step.do(`phase2-task-${taskId}`, ...))
LegalPhase2Dispatch(j) ==
  payload[j].kind = "legal" /\ wf[j].pc = "phase2-tasks" /\ Dispatch(j)

\* the body of a phase2-task step ends
LegalPhase2Done(j) ==
  /\ payload[j].kind = "legal"
  /\ \E name \in running[j] :
       name[1] = "phase2-task"
       /\ StepDone(j, name, Phase2Outcomes(wf[j].reviewTasks[name[2] + 1]))

(***************************************************************************)
(* Interruption of an execution: the instance is evicted and run() starts  *)
(* again from the top with the recorded step outcomes.  An interruption    *)
(* inside a step whose body updates the job record may come after the      *)
(* update and before the outcome is recorded.                              *)
(***************************************************************************)
PendingWrite(j) == IF wf[j].pc \in DbPcs(j) THEN {Write(j, wf[j])} ELSE {}

Interrupt(j) ==
  /\ scn.mode = "single" /\ crashes < MaxCrashes /\ ~Stopped(j)
  /\ crashes' = crashes + 1
  /\ wf' = [wf EXCEPT ![j] = Replay(j, Initial(payload[j].kind), log[j])]
  /\ running' = [running EXCEPT ![j] = {}]
  /\ calls' = [calls EXCEPT ![j] = [pending |-> 0, stray |-> 0]]
  /\ \/ UNCHANGED <<row, effects>>
     \/ \E write \in PendingWrite(j) :
          /\ row' = [row EXCEPT ![j] = ApplyUpdate(@, write)]
          /\ effects' = [effects EXCEPT ![j] = @ \cup {StepName(j, wf[j])}]
  /\ UNCHANGED <<scn, payload, route, log, reran, patches, pureVars>>

(***************************************************************************)
(* Routes (researchRoutes).                                                *)
(***************************************************************************)
\* POST /research/:id/compliance-check: the query for an ongoing compliance
\* check of the same research, answered 409 when there is one
RouteCheck(j) ==
  /\ payload[j].kind = "legal" /\ route[j] = "idle"
  /\ LET existingCompliance ==
           {k \in Jobs : row[k].exists /\ payload[k].kind = "legal"
                         /\ row[k].status \in {"pending", "in_progress"}}
     IN  route' = [route EXCEPT ![j] = IF existingCompliance # {} THEN "conflict"
                                       ELSE "checked"]
  /\ UNCHANGED <<scn, payload, row, wf, log, running, calls, reran,
                 effects, crashes, patches, pureVars>>

\* both POST routes: the insert of the job record
RouteInsert(j) ==
  /\ \/ payload[j].kind = "pdf" /\ route[j] = "idle"
     \/ payload[j].kind = "legal" /\ route[j] = "checked"
  /\ row' = [row EXCEPT ![j] = IF IsPdf(j) THEN InsertResearch ELSE InsertCompliance]
  /\ route' = [route EXCEPT ![j] = "inserted"]
  /\ UNCHANGED <<scn, payload, wf, log, running, calls, reran,
                 effects, crashes, patches, pureVars>>

\* both POST routes: workflow.create({params}) starts run()
RouteCreate(j) ==
  /\ route[j] = "inserted"
  /\ wf' = [wf EXCEPT ![j] = Initial(payload[j].kind)]
  /\ route' = [route EXCEPT ![j] = "created"]
  /\ UNCHANGED <<scn, payload, row, log, running, calls, reran,
                 effects, crashes, patches, pureVars>>

\* both POST routes: workflow.create throws and the catch of the route answers 500
RouteCreateFails(j) ==
  /\ route[j] = "inserted"
  /\ route' = [route EXCEPT ![j] = "error"]
  /\ UNCHANGED <<scn, payload, row, wf, log, running, calls, reran,
                 effects, crashes, patches, pureVars>>

\* an update of the route that also writes the stage the workflow starts in
RouteUpdateWithStage(j) ==
  /\ route[j] = "created"
  /\ row' = [row EXCEPT ![j] =
               ApplyUpdate(@, [workflowId |-> "instance", status |-> "in_progress",
                               currentStage |-> IF IsPdf(j) THEN "parsing"
                                                ELSE "compliance_check",
                               progress |-> 0])]
  /\ route' = [route EXCEPT ![j] = "done"]
  /\ UNCHANGED <<scn, payload, wf, log, running, calls, reran,
                 effects, crashes, patches, pureVars>>

\* both POST routes: .set({workflowId: instance.id, updatedAt})
RouteUpdate(j) ==
  /\ route[j] = "created"
  /\ row' = [row EXCEPT ![j] = ApplyUpdate(@, [workflowId |-> "instance"])]
  /\ route' = [route EXCEPT ![j] = "done"]
  /\ UNCHANGED <<scn, payload, wf, log, running, calls, reran,
                 effects, crashes, patches, pureVars>>

\* PATCH /research/:id/status with {status}
PatchStatus(j) ==
  /\ scn.mode = "patched" /\ patches < MaxPatches
  /\ IsPdf(j) /\ row[j].exists
  /\ \E status \in Statuses : row' = [row EXCEPT ![j] = ApplyUpdate(@, [status |-> status])]
  /\ patches' = patches + 1
  /\ UNCHANGED <<scn, payload, route, wf, log, running, calls, reran,
                 effects, crashes, pureVars>>

\* PATCH /research/:id with {currentStage} or {currentStage, status}
PatchResearch(j) ==
  /\ scn.mode = "patched" /\ patches < MaxPatches
  /\ IsPdf(j) /\ row[j].exists
  /\ \/ row' = [row EXCEPT ![j] = ApplyUpdate(@, [currentStage |-> "patched"])]
     \/ \E status \in Statuses :
          row' = [row EXCEPT ![j] =
                    ApplyUpdate(@, [currentStage |-> "patched", status |-> status])]
  /\ patches' = patches + 1
  /\ UNCHANGED <<scn, payload, route, wf, log, running, calls, reran,
                 effects, crashes, pureVars>>

(***************************************************************************)
(* The pure helpers, applied to an input.                                  *)
(***************************************************************************)
ChunkCall ==
  /\ scn.mode = "chunkArray" /\ ~called
  /\ chunks' = chunkArray(arr, csize)
  /\ called' = TRUE
  /\ UNCHANGED <<wfVars, arr, csize, legalArticles, limit, batches, selectedArticles,
                 allReviews, highSeverityIssues, object, contentLength, review>>

BatchCall ==
  /\ scn.mode = "batchByTokenLimit" /\ ~called
  /\ batches' = batchByTokenLimit(legalArticles, limit)
  /\ called' = TRUE
  /\ UNCHANGED <<wfVars, arr, csize, chunks, legalArticles, limit, selectedArticles,
                 allReviews, highSeverityIssues, object, contentLength, review>>

\* the start of the body of a phase1-batch step: batchByTokenLimit(legalArticles,
\* TOKEN_LIMIT), then the selection of the legal context from the batches
SelectCall ==
  /\ scn.mode = "selectArticles" /\ ~called
  /\ batches' = batchByTokenLimit(legalArticles, limit)
  /\ selectedArticles' = SelectArticles(batches')
  /\ called' = TRUE
  /\ UNCHANGED <<wfVars, arr, csize, chunks, legalArticles, limit,
                 allReviews, highSeverityIssues, object, contentLength, review>>

\* generateDocumentSummary(allReviews, ...): the selection of the issues
SummaryCall ==
  /\ scn.mode = "generateDocumentSummary" /\ ~called
  /\ highSeverityIssues' = TopIssues(allReviews)
  /\ called' = TRUE
  /\ UNCHANGED <<wfVars, arr, csize, chunks, legalArticles, limit, batches,
                 selectedArticles, allReviews, object, contentLength, review>>

\* reviewBlock(block, blockIndex, ...) after generateObject has returned object
ReviewCall ==
  /\ scn.mode = "reviewBlock" /\ ~called
  /\ review' = ReviewOf(0, object, contentLength)
  /\ called' = TRUE
  /\ UNCHANGED <<wfVars, arr, csize, chunks, legalArticles, limit, batches,
                 selectedArticles, allReviews, highSeverityIssues, object, contentLength>>

(***************************************************************************)
(* Initial states and specifications.                                      *)
(***************************************************************************)
NoAnswer == [severity |-> "safe", start |-> 0, end |-> 0]

NoReview == [blockIndex |-> 0, severity |-> "safe", start |-> 0, end |-> 0]

\* no summary and no review is being computed
IdleReview ==
  /\ allReviews = <<>> /\ highSeverityIssues = <<>>
  /\ object = NoAnswer /\ contentLength = 0 /\ review = NoReview

IdlePure ==
  /\ arr = <<>> /\ csize = 1 /\ chunks = <<>>
  /\ legalArticles = <<>> /\ limit = 1 /\ batches = <<>>
  /\ selectedArticles = <<>>
  /\ IdleReview
  /\ called = FALSE

NoPayload == [kind |-> "none", totalPages |-> 0, doc |-> "none", nBlocks |-> 0,
              oracle |-> "none"]

PdfPayload(n, d) == [NoPayload EXCEPT !.kind = "pdf", !.totalPages = n, !.doc = d]

LegalPayload(n, o) == [NoPayload EXCEPT !.kind = "legal", !.nBlocks = n, !.oracle = o]

Docs == {"empty", "dense", "mixed"}

Oracles == {"fallback", "few", "many", "mixed", "loose"}

Payloads ==
  {PdfPayload(n, d) : n \in 1..MaxPages, d \in Docs}
  \cup {LegalPayload(n, o) : n \in 1..MaxContractBlocks, o \in Oracles \ {"many"}}
  \cup {LegalPayload(MaxContractBlocks, "many"), LegalPayload(LargeContract, "fallback")}

\* the documents PATCH requests are made for
PatchPayloads == {PdfPayload(n, d) : n \in 1..PatchPages, d \in Docs}

\* the compliance checks made with a build that enables no legal code
DisabledPayloads ==
  {LegalPayload(n, "few") : n \in 1..MaxContractBlocks \cup {LargeContract}}

\* two jobs executing at the same time
PairPayloads == {PdfPayload(PairPages, "empty"), LegalPayload(1, "few")}

IdleJobs ==
  /\ row = [j \in Jobs |-> NoRow]
  /\ route = [j \in Jobs |-> "idle"]
  /\ wf = [j \in Jobs |-> NoWorkflow]
  /\ log = [j \in Jobs |-> <<>>]
  /\ running = [j \in Jobs |-> {}]
  /\ calls = [j \in Jobs |-> [pending |-> 0, stray |-> 0]]
  /\ reran = [j \in Jobs |-> FALSE]
  /\ effects = [j \in Jobs |-> {}]
  /\ crashes = 0
  /\ patches = 0

Init ==
  /\ \/ \E p \in Payloads :
          /\ scn = [mode |-> "single"]
          /\ payload = [j \in Jobs |-> IF j = 1 THEN p ELSE NoPayload]
     \/ \E p \in PatchPayloads :
          /\ scn = [mode |-> "patched"]
          /\ payload = [j \in Jobs |-> IF j = 1 THEN p ELSE NoPayload]
     \/ \E p \in PairPayloads :
          /\ scn = [mode |-> "pair"]
          /\ payload = [j \in Jobs |-> p]
     \/ \E p \in DisabledPayloads :
          /\ scn = [mode |-> "disabled"]
          /\ payload = [j \in Jobs |-> IF j = 1 THEN p ELSE NoPayload]
  /\ IdleJobs
  /\ IdlePure

Next ==
  \E j \in Jobs :
    \/ RouteCheck(j) \/ RouteInsert(j) \/ RouteCreate(j) \/ RouteCreateFails(j)
    \/ RouteUpdate(j) \/ PatchStatus(j) \/ PatchResearch(j)
    \/ PdfDbStep(j) \/ PdfParseDispatch(j) \/ PdfPageDone(j)
    \/ PdfReviewStart(j) \/ PdfReviewReturn(j) \/ PdfReviewThrow(j)
    \/ PdfSummary(j)
    \/ LegalDbStep(j) \/ LegalPhase1Dispatch(j) \/ LegalPhase1Done(j)
    \/ LegalPhase2Dispatch(j) \/ LegalPhase2Done(j)
    \/ Interrupt(j)

Spec == Init /\ [][Next]_vars

\* chunkArray on every array over three values of length at most MaxLen
Values == {1, 2, 3}

Arrays == UNION {[1..n -> Values] : n \in 0..MaxLen}

InitChunk ==
  /\ scn = [mode |-> "chunkArray"]
  /\ payload = [j \in Jobs |-> NoPayload]
  /\ IdleJobs
  /\ arr \in Arrays /\ csize \in 1..MaxSize /\ chunks = <<>>
  /\ legalArticles = <<>> /\ limit = 1 /\ batches = <<>>
  /\ selectedArticles = <<>>
  /\ IdleReview
  /\ called = FALSE

SpecChunk == InitChunk /\ [][ChunkCall]_vars

\* batchByTokenLimit on every list of at most MaxArticles articles whose texts
\* cost 1, 2, 3 or more tokens, with every limit up to MaxBudget
BodyLengths == {1, 5, 9, MaxBody}

ArticleLists ==
  UNION {[1..n -> {[nameLen |-> 1, titleLen |-> 0, bodyLen |-> b] : b \in BodyLengths}] :
           n \in 0..MaxArticles}

InitBatch ==
  /\ scn = [mode |-> "batchByTokenLimit"]
  /\ payload = [j \in Jobs |-> NoPayload]
  /\ IdleJobs
  /\ arr = <<>> /\ csize = 1 /\ chunks = <<>>
  /\ legalArticles \in ArticleLists /\ limit \in 1..MaxBudget /\ batches = <<>>
  /\ selectedArticles = <<>>
  /\ IdleReview
  /\ called = FALSE

SpecBatch == InitBatch /\ [][BatchCall]_vars

\* the selection on every list of at most MaxSelected loaded articles, the k-th
\* named k, with bodies of 0..MaxBodyUnits units that are plain text or half
\* markup
LoadedBodies ==
  {[bodyLen |-> u * BodyUnit, strippedLen |-> (u * BodyUnit) \div d] :
     u \in 0..MaxBodyUnits, d \in {1, 2}}

\* the k-th loaded article, named k
LoadedArticle(k, body) ==
  [name |-> k, nameLen |-> 5, titleLen |-> 0,
   bodyLen |-> body.bodyLen, strippedLen |-> body.strippedLen]

InitSelect ==
  /\ scn = [mode |-> "selectArticles"]
  /\ payload = [j \in Jobs |-> NoPayload]
  /\ IdleJobs
  /\ arr = <<>> /\ csize = 1 /\ chunks = <<>>
  /\ \E n \in 0..MaxSelected :
       \E bodies \in [1..n -> LoadedBodies] :
         legalArticles = [k \in 1..n |-> LoadedArticle(k, bodies[k])]
  /\ limit = TOKEN_LIMIT /\ batches = <<>>
  /\ selectedArticles = <<>>
  /\ IdleReview
  /\ called = FALSE

SpecSelect == InitSelect /\ [][SelectCall]_vars

Severities == {"safe", "medium", "elevated", "high"}

\* the selection of the issues on every list of at most MaxReviews reviews, the
\* i-th of block i - 1, of every severity
ReviewLists ==
  UNION {{[i \in 1..n |-> [blockIndex |-> i - 1, severity |-> sev[i]]] :
            sev \in [1..n -> Severities]} : n \in 0..MaxReviews}

InitSummary ==
  /\ scn = [mode |-> "generateDocumentSummary"]
  /\ payload = [j \in Jobs |-> NoPayload]
  /\ IdleJobs
  /\ arr = <<>> /\ csize = 1 /\ chunks = <<>>
  /\ legalArticles = <<>> /\ limit = 1 /\ batches = <<>>
  /\ selectedArticles = <<>>
  /\ allReviews \in ReviewLists /\ highSeverityIssues = <<>>
  /\ object = NoAnswer /\ contentLength = 0 /\ review = NoReview
  /\ called = FALSE

SpecSummary == InitSummary /\ [][SummaryCall]_vars

\* reviewBlock on every content length up to MaxContent and every answer whose
\* positions are integers from MaxOutside below 0 to MaxOutside above MaxContent
Answers ==
  {[severity |-> sev, start |-> a, end |-> b] :
     sev \in Severities,
     a \in (0 - MaxOutside)..(MaxContent + MaxOutside),
     b \in (0 - MaxOutside)..(MaxContent + MaxOutside)}

InitReview ==
  /\ scn = [mode |-> "reviewBlock"]
  /\ payload = [j \in Jobs |-> NoPayload]
  /\ IdleJobs
  /\ arr = <<>> /\ csize = 1 /\ chunks = <<>>
  /\ legalArticles = <<>> /\ limit = 1 /\ batches = <<>>
  /\ selectedArticles = <<>>
  /\ allReviews = <<>> /\ highSeverityIssues = <<>>
  /\ object \in Answers /\ contentLength \in 0..MaxContent /\ review = NoReview
  /\ called = FALSE

SpecReview == InitReview /\ [][ReviewCall]_vars

(***************************************************************************)
(* Properties of the pure helpers.                                         *)
(***************************************************************************)
RECURSIVE SumTokens(_)
SumTokens(batch) ==
  IF batch = <<>> THEN 0 ELSE ArticleTokens(Head(batch)) + SumTokens(Tail(batch))

\* C10: chunkArray returns exactly ceil(N / size) slices, every slice but the
\* last of length size, the last of length 1..size, and the slices concatenated
\* in order are the input array.
ChunkArrayPartitions ==
  called =>
    /\ Len(chunks) = MathCeil(Len(arr), csize)
    /\ \A i \in 1..Len(chunks) :
         /\ Len(chunks[i]) >= 1 /\ Len(chunks[i]) <= csize
         /\ i < Len(chunks) => Len(chunks[i]) = csize
    /\ Flatten(chunks) = arr

\* an array that does not divide evenly has been chunked: the last slice is shorter
ChunkArrayShortTail ==
  /\ called /\ Len(arr) = MaxLen /\ csize = MaxLen - 1
  /\ Len(chunks) = 2 /\ Len(chunks[2]) = 1

\* C9: batchByTokenLimit returns no batch of two or more articles whose summed
\* token cost exceeds the limit, and an article whose own cost exceeds the
\* limit is alone in its batch.
BatchesWithinLimit ==
  called =>
    \A b \in 1..Len(batches) :
      /\ Len(batches[b]) >= 2 => SumTokens(batches[b]) <= limit
      /\ \A k \in 1..Len(batches[b]) :
           ArticleTokens(batches[b][k]) > limit => Len(batches[b]) = 1

\* a list was batched that has an article over the limit between articles that
\* share batches
OversizedAloneBetweenBatches ==
  /\ called /\ Len(batches) = 3
  /\ Len(batches[1]) >= 2 /\ SumTokens(batches[1]) = limit
  /\ Len(batches[2]) = 1 /\ SumTokens(batches[2]) > limit
  /\ Len(batches[3]) >= 1

(***************************************************************************)
(* The uninterrupted execution that receives the recorded step outcomes:   *)
(* run() from the top, each step returning the outcome on record and       *)
(* making its update of the job record if it was made.                     *)
(***************************************************************************)
InsertedRow(j) == IF IsPdf(j) THEN InsertResearch ELSE InsertCompliance

RECURSIVE Uninterrupted(_, _, _, _, _)
Uninterrupted(j, w, r, lg, eff) ==
  IF w.pc \in SeqPcs(j)
  THEN LET name == StepName(j, w)
       IN  IF name \in DOMAIN lg
           THEN Uninterrupted(j, Return(j, w, lg[name]),
                              IF w.pc \in DbPcs(j) /\ name \in eff
                              THEN ApplyUpdate(r, Write(j, w)) ELSE r,
                              lg, eff)
           ELSE r
  ELSE IF w.pc \in WavePcs(j)
       THEN LET failed == FirstFailed(j, w, lg)
            IN  IF failed # 0
                THEN Uninterrupted(j, Throw(w, lg[Wave(j, w)[failed].name], Handler(j, w)),
                                   r, lg, eff)
                ELSE IF WaveRecordedOk(j, w, lg)
                     THEN Uninterrupted(j, Join(j, w, lg), r, lg, eff)
                     ELSE r
       ELSE r

Persisted(r) == [status |-> r.status, progress |-> r.progress, results |-> r.results]

Ended(j) == wf[j].pc \in {"done", "threw"}

ErrorsEndInFailedRecord ==
  \A j \in Jobs :
    scn.mode # "patched" =>
      /\ wf[j].pc # "threw"
      /\ (wf[j].pc = "done" /\ wf[j].error # "none") =>
           /\ row[j].status = "failed"
           /\ row[j].currentStage = "error"
           /\ row[j].errorMessage # Null

\* C3: once the request that created a job record is over and no execution of
\* the job is left, the record is completed or failed.
CreatedJobsSettle ==
  \A j \in Jobs :
    (scn.mode # "patched" /\ row[j].exists /\ route[j] \in {"done", "error"} /\ Stopped(j))
      => row[j].status \in Terminal

\* C4: the status of a job record that is completed or failed never changes.
TerminalStatusIsFinal ==
  [][\A j \in Jobs :
       (row[j].exists /\ row[j].status \in Terminal) => row'[j].status = row[j].status]_vars

\* C5: the progress of a job record never decreases.
ProgressNeverDecreases ==
  [][\A j \in Jobs : row[j].exists => row'[j].progress >= row[j].progress]_vars

\* both pipelines have written progress several times: a document in its second
\* review batch of three, a compliance check after its first phase 2 wave of two
ProgressWrittenPerWave ==
  \/ /\ IsPdf(1) /\ wf[1].pc = "review-batch" /\ wf[1].batchIndex = 1
     /\ Len(reviewBatches(wf[1])) = 2 /\ row[1].progress = 75
  \/ /\ payload[1].kind = "legal" /\ wf[1].pc = "phase2-tasks" /\ wf[1].chunkIndex = 1
     /\ row[1].progress = 70

RECURSIVE SumOver(_, _)
SumOver(f, S) ==
  IF S = {} THEN 0 ELSE LET x == CHOOSE y \in S : TRUE IN f[x] + SumOver(f, S \ {x})

InFlight(kind) ==
  SumOver([j \in Jobs |-> Cardinality({n \in running[j] : n[1] = kind})], Jobs)

ReviewsInFlight == SumOver([j \in Jobs |-> calls[j].pending + calls[j].stray], Jobs)

\* C7: at every moment the inference calls in flight for a stage, over all jobs,
\* are at most the bound of the stage.
InFlightWithinStageBounds ==
  /\ InFlight("parse-page") <= PAGES_PER_BATCH
  /\ ReviewsInFlight <= REVIEW_BATCH_SIZE
  /\ InFlight("phase1-batch") <= MAX_PARALLEL_PHASE1
  /\ InFlight("phase2-task") <= MAX_PARALLEL_PHASE2

\* C8: the blocks aggregated by the parse stage are in ascending order of page
\* number and, within a page, of extraction index.
BlocksInPageOrder ==
  \A j \in Jobs :
    IsPdf(j) /\ wf[j].pc # "none" =>
      \A a, b \in 1..Len(wf[j].allBlocks) :
        a < b =>
          \/ wf[j].allBlocks[a].pageNumber < wf[j].allBlocks[b].pageNumber
          \/ /\ wf[j].allBlocks[a].pageNumber = wf[j].allBlocks[b].pageNumber
             /\ wf[j].allBlocks[a].index < wf[j].allBlocks[b].index

\* the first wave of a dense document is aggregated and, in the second wave, a
\* page has finished before the page in front of it
LaterPageFinishedFirst ==
  /\ IsPdf(1) /\ wf[1].pc = "parse-join" /\ wf[1].batchIndex = 1
  /\ Len(wf[1].allBlocks) = PAGES_PER_BATCH * BigPage
  /\ Name("parse-page", PAGES_PER_BATCH + 2) \in DOMAIN log[1]
  /\ Name("parse-page", PAGES_PER_BATCH + 1) \in running[1]

OneReviewPerBlock(blocks, reviews) ==
  /\ Len(reviews) = Len(blocks)
  /\ \A i \in 1..Len(reviews) : reviews[i].blockIndex = i - 1

\* run() is past the review loop and has not gone to its catch block
ReviewStageCompleted(j) ==
  /\ IsPdf(j) /\ wf[j].error = "none"
  /\ wf[j].pc \in {"update-status-summarizing", "generate-summary", "finalize-results",
                   "done"}

\* C11: when the review stage has completed there is exactly one review per
\* parsed block, and the i-th review of the aggregated list carries the index
\* i of its block in the aggregated block list; the results that are saved
\* hold the same lists.
OneReviewPerBlockInOrder ==
  \A j \in Jobs :
    /\ ReviewStageCompleted(j) => OneReviewPerBlock(wf[j].allBlocks, wf[j].allReviews)
    /\ (IsPdf(j) /\ row[j].results.set) =>
         OneReviewPerBlock(row[j].results.blocks, row[j].results.reviews)

\* a document reviewed in two waves is completed with its results saved
TwoReviewWavesCompleted ==
  /\ IsPdf(1) /\ wf[1].pc = "done" /\ row[1].status = "completed"
  /\ row[1].results.set
  /\ Len(row[1].results.reviews) > REVIEW_BATCH_SIZE
  /\ Len(row[1].results.reviews) < 2 * REVIEW_BATCH_SIZE

\* the review-batch steps of job j recorded as failed by a structuring error
StructuringFailedReviews(j) ==
  {name \in DOMAIN log[j] :
     name[1] = "review-batch" /\ log[j][name].err = "review-structuring"}

\* C13 as stated: a structuring error of the document review does not make the
\* job failed.
ReviewStructuringFallsBack ==
  \A j \in Jobs :
    (IsPdf(j) /\ row[j].exists /\ row[j].status = "failed")
      => row[j].errorMessage # "review-structuring"

\* C13 amended: a structuring error of a block fails its review-batch step for
\* good; no default review is added, no later review wave, summary or finalize
\* step runs, run() goes to its catch block with that error, and the update of
\* mark-workflow-failed sets the record failed with the error as its message.
ReviewStructuringPropagates ==
  \A j \in Jobs :
    \A name \in StructuringFailedReviews(j) :
      /\ wf[j].pc \in {"mark-workflow-failed", "done", "threw"}
      /\ wf[j].pc # "threw" => wf[j].error = "review-structuring"
      /\ wf[j].batchIndex = name[2]
      /\ Len(wf[j].allReviews) = name[2] * REVIEW_BATCH_SIZE
      /\ \A other \in DOMAIN log[j] :
           /\ other[1] \notin {"generate-summary", "finalize-results", "update-status-summarizing"}
           /\ other[1] \in {"review-batch", "update-progress-batch"} => other[2] <= name[2]
           /\ other[1] = "update-progress-batch" => other[2] < name[2]
      /\ Name("finalize-results", 0) \notin effects[j]
      /\ wf[j].pc = "done" =>
           /\ log[j][Name("mark-workflow-failed", 0)].ok
           /\ Name("mark-workflow-failed", 0) \in effects[j]
      /\ (Name("mark-workflow-failed", 0) \in effects[j] /\ patches = 0) =>
           /\ row[j].status = "failed"
           /\ row[j].errorMessage = "review-structuring"
           /\ ~row[j].results.set

\* the second review wave of a document failed on a structuring error and the
\* job ended failed
SecondReviewWaveFailedStructuring ==
  /\ IsPdf(1) /\ wf[1].pc = "done"
  /\ StructuringFailedReviews(1) = {Name("review-batch", 1)}
  /\ row[1].status = "failed" /\ row[1].errorMessage = "review-structuring"

\* the phase2-task steps of job j recorded as failed by a structuring error
StructuringFailedTasks(j) ==
  {name \in DOMAIN log[j] :
     name[1] = "phase2-task" /\ log[j][name].err = "phase2-structuring"}

\* C14: when the structuring pass of a deep-analysis task has failed, the
\* finalize step never runs, no results are saved, and the execution ends with
\* the compliance record failed and holding an error message.
Phase2StructuringFailsJob ==
  \A j \in Jobs :
    (payload[j].kind = "legal" /\ StructuringFailedTasks(j) # {}) =>
      /\ Name("finalize-compliance-results", 0) \notin DOMAIN log[j] \cup effects[j]
      /\ ~row[j].results.set
      /\ Ended(j) => (row[j].status = "failed" /\ row[j].errorMessage # Null)

\* the task names an article that the loaded corpus holds under that source
InCorpus(task) ==
  \E a \in LoadedArticles :
    a.name = task.article.articleName /\ a.source = task.article.source

\* run() is past the deep-analysis loop and has not gone to its catch block
Phase2Completed(j) ==
  /\ payload[j].kind = "legal" /\ wf[j].error = "none"
  /\ wf[j].pc \in {"finalize-compliance-results", "done"}

\* C15: a deep-analysis task whose (articleName, source) is not in the loaded
\* corpus ends without a result and without an inference error, whatever the
\* other tasks of its wave do; when the deep analysis has completed, the
\* aggregated results are those of the other tasks, one each, in task order.
UnmatchedTasksYieldNothing ==
  \A j \in Jobs :
    (payload[j].kind = "legal" /\ wf[j].pc # "none") =>
      LET tasks == wf[j].reviewTasks
          matched == SelectSeq(tasks, InCorpus)
      IN  /\ \A name \in DOMAIN log[j] :
               (name[1] = "phase2-task" /\ ~InCorpus(tasks[name[2] + 1])) =>
                 /\ log[j][name].err \in {"none", "load-r2"}
                 /\ log[j][name].val = <<>>
          /\ Phase2Completed(j) =>
               /\ Len(wf[j].phase2Results) = Len(matched)
               /\ \A i \in 1..Len(matched) :
                    /\ wf[j].phase2Results[i].contractBlockIndex = matched[i].blockIndex
                    /\ wf[j].phase2Results[i].articleName = matched[i].article.articleName
                    /\ wf[j].phase2Results[i].source = matched[i].article.source

\* a compliance check is completed whose single wave held, for every block, a
\* task with an article of the corpus and a task with an article that is not
UnmatchedTasksInCompletedJob ==
  /\ payload[1].kind = "legal" /\ wf[1].pc = "done" /\ row[1].status = "completed"
  /\ Len(wf[1].reviewTasks) = 2 * MaxContractBlocks
  /\ \E k \in 1..Len(wf[1].reviewTasks) : ~InCorpus(wf[1].reviewTasks[k])
  /\ Len(row[1].results.phase2) = MaxContractBlocks

\* run() has derived the deep-analysis tasks from the Phase 1 results
TasksDerived(j) ==
  /\ payload[j].kind = "legal" /\ wf[j].pc # "none"
  /\ Name("update-status-phase2", 0) \in DOMAIN log[j]
  /\ log[j][Name("update-status-phase2", 0)].ok

\* C16: after task derivation, skippedArticles counts exactly the relevant
\* articles of flagged blocks whose source is not an enabled code, and the
\* tasks are exactly the other relevant articles of flagged blocks, one task
\* each, in order; so tasks + skippedArticles is the number of relevant articles
\* of flagged blocks.
TasksAndSkippedCoverFlaggedArticles ==
  \A j \in Jobs :
    TasksDerived(j) =>
      LET flagged == SelectSeq(wf[j].phase1Results, LAMBDA r : r.needsDeepReview)
          pairs == {p \in (1..Len(flagged)) \X (1..ManyArticles) :
                      p[2] <= Len(flagged[p[1]].relevantArticles)}
          articleOf(p) == flagged[p[1]].relevantArticles[p[2]]
          enabled == {p \in pairs : articleOf(p).source \in EnabledCodes}
          rank(p) == Cardinality({q \in enabled :
                                    q[1] < p[1] \/ (q[1] = p[1] /\ q[2] <= p[2])})
      IN  /\ wf[j].skippedArticles = Cardinality(pairs \ enabled)
          /\ Len(wf[j].reviewTasks) = Cardinality(enabled)
          /\ Len(wf[j].reviewTasks) + wf[j].skippedArticles = Cardinality(pairs)
          /\ \A p \in enabled :
               wf[j].reviewTasks[rank(p)] =
                 [blockIndex |-> flagged[p[1]].contractBlockIndex, article |-> articleOf(p)]

\* tasks were derived from results that hold flagged blocks with articles of
\* the disabled code and blocks that list articles without being flagged
SkippedAndUnflaggedArticles ==
  /\ TasksDerived(1) /\ wf[1].pc = "phase2-tasks"
  /\ wf[1].skippedArticles = 2 /\ Len(wf[1].reviewTasks) = 4
  /\ \E i \in 1..Len(wf[1].phase1Results) :
       /\ ~wf[1].phase1Results[i].needsDeepReview
       /\ Len(wf[1].phase1Results[i].relevantArticles) > 0

\* the parallel steps of job j that have started: executing or recorded
StartedSteps(j, prefix) == {name \in running[j] \cup DOMAIN log[j] : name[1] = prefix}

\* C17 as stated: with both legal codes disabled no phase1-batch step starts.
NoBatchStartsWithoutCodes ==
  \A j \in Jobs : scn.mode = "disabled" => StartedSteps(j, "phase1-batch") = {}

\* C17 amended: with both legal codes disabled the phase1-batch steps of the
\* first wave start and every one that ends has failed in loadLegalCodes with
\* the configuration error, before any inference call and without a result; no
\* later wave, progress update of phase 1 or deep-analysis task follows, the job
\* is never completed, and run() goes to its catch block, where the update of
\* mark-compliance-failed sets the job failed with that error as its message.
ConfigurationErrorInsideFirstWave ==
  \A j \in Jobs :
    (scn.mode = "disabled" /\ wf[j].pc # "none") =>
      /\ \A name \in StartedSteps(j, "phase1-batch") :
           /\ name[2] < MAX_PARALLEL_PHASE1
           /\ name \in DOMAIN log[j] => log[j][name] = Failed("load-config", FALSE)
      /\ StartedSteps(j, "phase2-task") = {}
      /\ wf[j].phase1Results = <<>>
      /\ \A name \in DOMAIN log[j] \cup effects[j] :
           name[1] \notin {"update-progress-phase1", "update-status-phase2",
                           "update-progress-phase2", "finalize-compliance-results"}
      /\ row[j].status # "completed" /\ ~row[j].results.set
      /\ StartedSteps(j, "phase1-batch") \cap DOMAIN log[j] # {} =>
           /\ wf[j].pc \in {"mark-compliance-failed", "done", "threw"}
           /\ wf[j].pc # "threw" => wf[j].error = "load-config"
           /\ wf[j].pc = "done" =>
                (row[j].status = "failed" /\ row[j].errorMessage = "load-config")

\* with both codes disabled, a contract of more than one wave of batches ended
\* failed after a step of its first wave had failed on the configuration error
ConfigurationErrorFailedJob ==
  /\ scn.mode = "disabled" /\ payload[1].nBlocks = LargeContract
  /\ wf[1].pc = "done" /\ row[1].status = "failed"
  /\ row[1].errorMessage = "load-config" /\ row[1].progress = 10
  /\ Name("phase1-batch", 1) \in DOMAIN log[1]

\* job j dispatches the wave it is at and awaits it
WaveDispatched(j) == wf[j].pc \in WavePcs(j) /\ wf'[j].pc = WaitPc(wf[j].pc)

\* C18 as stated: every dispatch of a wave, the one that follows an
\* interruption in the middle of the wave included, executes every item of the
\* wave.
WholeWaveReexecuted ==
  [][\A j \in Jobs : WaveDispatched(j) => running'[j] = WaveNames(j, wf[j])]_vars

\* C18 amended: the review stage records one step per wave, and a review-batch
\* step that starts, after an interruption too, makes the review call of every
\* block of its wave; the parse, identification and deep-analysis stages
\* record one step per item, and the dispatch of a wave executes exactly the
\* items of the wave that have no recorded outcome.
WaveRecordedPerItemExceptReview ==
  [][\A j \in Jobs :
       /\ WaveDispatched(j) => running'[j] = WaveNames(j, wf[j]) \ DOMAIN log[j]
       /\ (wf[j].pc = "review-batch" /\ wf'[j].pc = "review-wait") =>
            /\ Name("review-batch", wf[j].batchIndex) \notin DOMAIN log[j]
            /\ calls'[j].pending =
                 Min(REVIEW_BATCH_SIZE,
                     Len(wf[j].allBlocks) - wf[j].batchIndex * REVIEW_BATCH_SIZE)]_vars

\* an execution was interrupted in the middle of a wave and its replay has
\* stopped at that wave with the outcomes of some of its items on record
ReplayStoppedInsideWave ==
  \E j \in Jobs :
    /\ crashes = 1 /\ wf[j].pc \in WavePcs(j)
    /\ WaveNames(j, wf[j]) \cap DOMAIN log[j] # {}
    /\ WaveNames(j, wf[j]) \ DOMAIN log[j] # {}

\* the stages that run in waves: the steps of the items, the number of the
\* first item, the items per wave, and the step that writes the progress of a
\* wave
WaveStages ==
  {[item |-> "parse-page", first |-> 1, size |-> PAGES_PER_BATCH,
    progress |-> "update-progress-parsing-batch"],
   [item |-> "review-batch", first |-> 0, size |-> 1,
    progress |-> "update-progress-batch"],
   [item |-> "phase1-batch", first |-> 0, size |-> MAX_PARALLEL_PHASE1,
    progress |-> "update-progress-phase1"],
   [item |-> "phase2-task", first |-> 0, size |-> MAX_PARALLEL_PHASE2,
    progress |-> "update-progress-phase2"]}

WaveOf(stage, name) == (name[2] - stage.first) \div stage.size

\* the items of a stage that job j has dispatched: steps executing or
\* recorded, and the review wave whose calls are in flight
DispatchedItems(j, stage) ==
  StartedSteps(j, stage.item)
  \cup (IF stage.item = "review-batch" /\ wf[j].pc = "review-wait"
        THEN {Name("review-batch", wf[j].batchIndex)} ELSE {})

\* C19: in every stage, when an item of a wave has been dispatched, every item
\* of every earlier wave of the stage has completed successfully and the
\* progress update of every earlier wave has been made and has succeeded; so
\* after a failed item no item of a later wave is ever dispatched.
WavesJoinedBeforeNext ==
  \A j \in Jobs : \A stage \in WaveStages :
    \A name \in DispatchedItems(j, stage) :
      /\ \A i \in stage.first..(stage.first + WaveOf(stage, name) * stage.size - 1) :
           /\ Name(stage.item, i) \in DOMAIN log[j]
           /\ log[j][Name(stage.item, i)].ok
      /\ \A k \in 0..(WaveOf(stage, name) - 1) :
           /\ Name(stage.progress, k) \in effects[j]
           /\ Name(stage.progress, k) \in DOMAIN log[j]
           /\ log[j][Name(stage.progress, k)].ok

\* the second wave of an identification stage is executing after the progress
\* of the first wave was written
SecondWaveAfterProgressWritten ==
  /\ payload[1].kind = "legal" /\ wf[1].pc = "phase1-join" /\ wf[1].chunkIndex = 1
  /\ Name("phase1-batch", MAX_PARALLEL_PHASE1) \in running[1]
  /\ row[1].progress = Phase1Progress(0, 2)

\* run() is past the identification loop and has not gone to its catch block
\* before the end of it
Phase1Completed(j) ==
  /\ payload[j].kind = "legal"
  /\ \/ wf[j].pc = "update-status-phase2"
     \/ Name("update-status-phase2", 0) \in DOMAIN log[j]

\* C20: when the identification stage has completed, the aggregated Phase 1
\* results hold exactly one result per contract block, in input order, the i-th
\* with contractBlockIndex i, whatever the inference capability answered and
\* in whatever order the batches completed.
OnePhase1ResultPerBlock ==
  \A j \in Jobs :
    (Phase1Completed(j) /\ wf[j].pc # "none") =>
      /\ Len(wf[j].phase1Results) = payload[j].nBlocks
      /\ \A i \in 1..Len(wf[j].phase1Results) :
           wf[j].phase1Results[i].contractBlockIndex = i - 1

(***************************************************************************)
(* A failed structuring pass of an identification batch.                   *)
(***************************************************************************)
\* the recorded phase1-batch steps of job j whose structuring pass failed
StructuringFailedBatches(j) ==
  {name \in StartedSteps(j, "phase1-batch") \cap DOMAIN log[j] :
     StructuringFails(j, name[2])}

\* C21: a phase 1 batch whose structuring pass fails does not fail for that
\* reason: its step returns one result per block of the batch, with
\* contractBlockIndex = startBlockIndex + position, hasViolation = false, no
\* relevant articles and needsDeepReview = false; run() joins it with the
\* other batches of the stage, and no job fails with this error.
StructuringFailureFallsBack ==
  \A j \in Jobs :
    /\ wf[j].pc # "none" => wf[j].error # "phase1-structuring"
    /\ row[j].exists => row[j].errorMessage # "phase1-structuring"
    /\ \A name \in StructuringFailedBatches(j) :
         LET o == log[j][name]
             startBlockIndex == name[2] * CONTRACT_BLOCKS_PER_BATCH
             blocksOfBatch == Min(CONTRACT_BLOCKS_PER_BATCH,
                                  payload[j].nBlocks - startBlockIndex)
         IN  /\ ~o.ok => o.err \in {"phase1-call", "load-r2"}
             /\ o.ok =>
                  /\ Len(o.val) = blocksOfBatch
                  /\ \A idx \in 1..blocksOfBatch :
                       /\ o.val[idx].contractBlockIndex = startBlockIndex + (idx - 1)
                       /\ ~o.val[idx].hasViolation
                       /\ o.val[idx].relevantArticles = <<>>
                       /\ ~o.val[idx].needsDeepReview
    /\ (Phase1Completed(j) /\ payload[j].oracle \in {"fallback", "mixed"}) =>
         /\ Len(wf[j].phase1Results) = payload[j].nBlocks
         /\ \A i \in 1..payload[j].nBlocks :
              wf[j].phase1Results[i].contractBlockIndex = i - 1

\* a job completed although the structuring pass of its second batch failed:
\* the results of the first batch are flagged, those of the second are not
FallbackBatchInCompletedJob ==
  /\ payload[1].kind = "legal" /\ payload[1].oracle = "mixed"
  /\ payload[1].nBlocks = MaxContractBlocks
  /\ Name("phase1-batch", 1) \in StructuringFailedBatches(1)
  /\ wf[1].pc = "done" /\ row[1].status = "completed"
  /\ row[1].results.set
  /\ row[1].results.phase1[1].hasViolation
  /\ ~row[1].results.phase1[MaxContractBlocks].hasViolation

(***************************************************************************)
(* The stages a workflow writes.                                           *)
(***************************************************************************)
\* the declared order of the stages of each pipeline, after the stage the
\* insert of the route leaves; error comes after every stage
StageOrder(kind) ==
  IF kind = "pdf"
  THEN <<"uploading", "parsing", "reviewing", "summarizing", "completed", "error">>
  ELSE <<Null, "compliance_check", "identifying_articles", "deep_analysis",
         "compliance_completed", "error">>

StageRank(kind, stage) ==
  LET order == StageOrder(kind)
      ks == {k \in 1..Len(order) : order[k] = stage}
  IN  IF ks = {} THEN 0 ELSE CHOOSE k \in ks : TRUE

\* C22: while no PATCH request has changed the record, every change of
\* currentStage is made by the workflow and goes to a later stage of the
\* declared order of its pipeline (parsing, reviewing, summarizing, completed;
\* compliance_check, identifying_articles, deep_analysis, compliance_completed)
\* or to error; error is never left; and summarizing is written only when
\* there is at least one review.
StagesOnlyMoveForward ==
  [][\A j \in Jobs :
       (patches' = 0 /\ row[j].exists /\ row'[j].currentStage # row[j].currentStage) =>
         /\ StageRank(payload[j].kind, row'[j].currentStage)
              > StageRank(payload[j].kind, row[j].currentStage)
         /\ StageRank(payload[j].kind, row[j].currentStage) > 0
         /\ row[j].currentStage # "error"
         /\ row'[j].currentStage = "summarizing" => Len(wf[j].allReviews) > 0]_vars

\* a document went through parsing, reviewing and summarizing, its completion
\* was written by a finalize-results step that then failed, and the catch
\* block wrote error
AllStagesWritten ==
  /\ payload[1].kind = "pdf" /\ patches = 0
  /\ row[1].currentStage = "error"
  /\ {Name("update-status-parsing", 0), Name("update-status-reviewing", 0),
      Name("update-status-summarizing", 0), Name("finalize-results", 0),
      Name("mark-workflow-failed", 0)} \subseteq effects[1]
  /\ Len(wf[1].allReviews) > 0

(***************************************************************************)
(* The legal context of an identification batch.                           *)
(***************************************************************************)
RECURSIVE SumContext(_)
SumContext(articles) ==
  IF articles = <<>> THEN 0
  ELSE ContextTokens(Head(articles)) + SumContext(Tail(articles))

\* C23: the selected articles are a prefix of the ordered article list that
\* ends at the first article that does not fit: no later article is selected,
\* and the summed cost of the selection does not exceed PHASE1_LEGAL_TOKENS.
SelectionIsGreedyPrefix ==
  called =>
    LET ordered == Flatten(batches)
        n == Len(selectedArticles)
    IN  /\ n <= Len(ordered)
        /\ selectedArticles = SubSeq(ordered, 1, n)
        /\ n < Len(ordered) =>
             SumContext(selectedArticles) + ContextTokens(ordered[n + 1])
               > PHASE1_LEGAL_TOKENS
        /\ SumContext(selectedArticles) <= PHASE1_LEGAL_TOKENS

(***************************************************************************)
(* batchByTokenLimit as a partition of its input.                          *)
(***************************************************************************)
\* C24: batchByTokenLimit returns no empty batch, and its batches concatenated
\* in order are the input list: no article is split, dropped, duplicated or
\* moved; the empty list yields no batch.
BatchesPartitionInput ==
  (called /\ scn.mode = "batchByTokenLimit") =>
    /\ \A b \in 1..Len(batches) : Len(batches[b]) >= 1
    /\ Flatten(batches) = legalArticles
    /\ legalArticles = <<>> => batches = <<>>

\* a list of MaxArticles articles of different costs was split into three
\* batches, one of them of two articles
ArticlesSplitIntoBatches ==
  /\ called /\ scn.mode = "batchByTokenLimit"
  /\ Len(legalArticles) = MaxArticles
  /\ \E i, k \in 1..Len(legalArticles) :
       legalArticles[i].bodyLen # legalArticles[k].bodyLen
  /\ Len(batches) = 3
  /\ \E b \in 1..Len(batches) : Len(batches[b]) = 2

(***************************************************************************)
(* The issues of the summary.                                              *)
(***************************************************************************)
\* review a comes before review b: it is more severe, or as severe and earlier
\* in the input
MoreSevere(a, b) ==
  \/ severityOrder(a.severity) > severityOrder(b.severity)
  \/ severityOrder(a.severity) = severityOrder(b.severity) /\ a.blockIndex < b.blockIndex

\* issues are the three first reviews of the set S, or all of S, in that order
TopThreeOf(issues, S) ==
  /\ Len(issues) = Min(3, Cardinality(S))
  /\ \A k \in 1..Len(issues) :
       /\ issues[k] \in S
       /\ Cardinality({r \in S : MoreSevere(r, issues[k])}) = k - 1

ReviewsGiven == {allReviews[i] : i \in 1..Len(allReviews)}

\* C25 as stated: the issues selected are the 3 most severe of all reviews,
\* ranked high > elevated > medium > safe, equal severities in input order.
TopThreeOfAllReviews ==
  (called /\ scn.mode = "generateDocumentSummary") =>
    TopThreeOf(highSeverityIssues, ReviewsGiven)

\* C25 amended: the issues selected are the 3 first of the reviews of severity
\* high or elevated, high before elevated and equal severities in input
\* order; a review of severity medium or safe is never selected, so fewer
\* than 3 issues are selected when fewer than 3 reviews are high or elevated.
TopThreeOfHighAndElevated ==
  (called /\ scn.mode = "generateDocumentSummary") =>
    /\ TopThreeOf(highSeverityIssues,
                  {r \in ReviewsGiven : r.severity \in {"high", "elevated"}})
    /\ \A k \in 1..Len(highSeverityIssues) :
         highSeverityIssues[k].severity \in {"high", "elevated"}

\* of MaxReviews reviews that begin with a medium one, two were selected: a
\* high one and, after it, an elevated one that came before it in the input
TwoIssuesOfManyReviews ==
  /\ called /\ scn.mode = "generateDocumentSummary"
  /\ Len(allReviews) = MaxReviews
  /\ allReviews[1].severity = "medium"
  /\ Len(highSeverityIssues) = 2
  /\ highSeverityIssues[1].severity = "high"
  /\ highSeverityIssues[2].severity = "elevated"
  /\ highSeverityIssues[2].blockIndex < highSeverityIssues[1].blockIndex

(***************************************************************************)
(* The span of a review.                                                   *)
(***************************************************************************)
\* C26: for every content length and every answer with integer positions the
\* review has 0 <= start <= end <= len(content), and for a safe answer whose
\* clamped and ordered span is empty the span is the whole content.
ReviewSpanWithinContent ==
  (called /\ scn.mode = "reviewBlock") =>
    LET lo == Min(Clamp(object.start, contentLength), Clamp(object.end, contentLength))
        hi == Max(Clamp(object.start, contentLength), Clamp(object.end, contentLength))
    IN  /\ 0 <= review.start /\ review.start <= review.end
        /\ review.end <= contentLength
        /\ review.severity = object.severity
        /\ (object.severity = "safe" /\ (lo = hi \/ hi = 0)) =>
             review.start = 0 /\ review.end = contentLength
        /\ ~(object.severity = "safe" /\ (lo = hi \/ hi = 0)) =>
             review.start = lo /\ review.end = hi

\* an answer that is not safe, with its start past the content and its end
\* before it, was turned into a span inside the content
AnswerOutsideContentClamped ==
  /\ called /\ scn.mode = "reviewBlock"
  /\ object.severity = "high" /\ contentLength = MaxContent
  /\ object.start > contentLength /\ object.end < 0
  /\ review.start = 0 /\ review.end = contentLength

(***************************************************************************)
(* Compliance checks requested at the same time.                           *)
(***************************************************************************)
\* the legal_compliance records of the research that are pending or in progress
OngoingCompliance ==
  {j \in Jobs : /\ payload[j].kind = "legal" /\ row[j].exists
                /\ row[j].status \in {"pending", "in_progress"}}

\* C27: at any time at most one legal_compliance record of the research is
\* pending or in progress: of the requests made for it at the same time at most
\* one inserts a record and creates a workflow.
AtMostOneOngoingCompliance ==
  /\ Cardinality(OngoingCompliance) <= 1
  /\ Cardinality({j \in Jobs : payload[j].kind = "legal" /\ wf[j].pc # "none"
                                /\ ~Stopped(j)}) <= 1

(***************************************************************************)
(* The names given to step.do.                                             *)
(***************************************************************************)
\* the steps named by a template with an index: `parse-page-${pageNumber}` ...
IndexedSteps ==
  {"parse-page", "update-progress-parsing-batch", "review-batch", "update-progress-batch",
   "phase1-batch", "update-progress-phase1", "phase2-task", "update-progress-phase2"}

\* the string passed to step.do for a step of the model
StepString(name) ==
  IF name[1] \in IndexedSteps THEN name[1] \o "-" \o ToString(name[2]) ELSE name[1]

\* the names run() of PdfParserWorkflow passes to step.do, in program order,
\* when no step fails
PdfStepStrings(j, w) ==
  LET pages == pageBatches(j)
      nReview == IF Len(w.allBlocks) > 0 THEN Len(reviewBatches(w)) ELSE 0
  IN  <<"update-status-parsing">>
      \o Flatten([b \in 1..Len(pages) |->
                    [k \in 1..Len(pages[b]) |-> "parse-page-" \o ToString(pages[b][k])]
                    \o <<"update-progress-parsing-batch-" \o ToString(b - 1)>>])
      \o <<"update-status-reviewing">>
      \o Flatten([b \in 1..nReview |->
                    <<"review-batch-" \o ToString(b - 1),
                      "update-progress-batch-" \o ToString(b - 1)>>])
      \o (IF Len(w.allReviews) > 0
          THEN <<"update-status-summarizing", "generate-summary">> ELSE <<>>)
      \o <<"finalize-results">>

\* the same for run() of LegalComplianceWorkflow
LegalStepStrings(j, w) ==
  LET chunks1 == processingChunks(j)
      chunks2 == reviewChunks(w)
  IN  <<"update-status-starting", "update-status-phase1">>
      \o Flatten([c \in 1..Len(chunks1) |->
                    [k \in 1..Len(chunks1[c]) |->
                       "phase1-batch-" \o ToString(chunks1[c][k].batchIndex)]
                    \o <<"update-progress-phase1-" \o ToString(c - 1)>>])
      \o <<"update-status-phase2">>
      \o Flatten([c \in 1..Len(chunks2) |->
                    [k \in 1..Len(chunks2[c]) |->
                       "phase2-task-" \o ToString((c - 1) * MAX_PARALLEL_PHASE2 + (k - 1))]
                    \o <<"update-progress-phase2-" \o ToString(c - 1)>>])
      \o <<"finalize-compliance-results">>

StepStrings(j, w) == IF IsPdf(j) THEN PdfStepStrings(j, w) ELSE LegalStepStrings(j, w)

\* run() of job j has returned from its last step without a failure
RanToTheEnd(j) ==
  /\ wf[j].pc = "done"
  /\ \A name \in DOMAIN log[j] : log[j][name].ok

\* C28: the names passed to step.do in one execution are pairwise distinct:
\* steps of the model with different names have different name strings, and
\* a run without failures leaves one recorded step for every name it passed,
\* none of them passed twice.
StepNamesDistinct ==
  \A j \in Jobs :
    /\ LET started == DOMAIN log[j] \cup running[j]
       IN  Cardinality({StepString(name) : name \in started}) = Cardinality(started)
    /\ RanToTheEnd(j) =>
         LET strings == StepStrings(j, wf[j])
             passed == {strings[i] : i \in 1..Len(strings)}
         IN  /\ Cardinality(passed) = Len(strings)
             /\ {StepString(name) : name \in DOMAIN log[j]} = passed
             /\ Cardinality(DOMAIN log[j]) = Len(strings)

\* a document of two parse waves and two review waves ran to the end
RunsOfTwoWavesEnded ==
  /\ IsPdf(1) /\ RanToTheEnd(1)
  /\ Len(pageBatches(1)) = 2 /\ Len(reviewBatches(wf[1])) = 2
  /\ Len(wf[1].allReviews) > REVIEW_BATCH_SIZE

(***************************************************************************)
(* A step whose body is executed a second time.                            *)
(***************************************************************************)
\* C29: the update of a step sets absolute values: when a step whose update
\* was made is executed again (the execution was interrupted before the
\* outcome was recorded), the job record is left as the first execution left
\* it, and at every step making its update twice equals making it once.
StepWritesAreAbsolute ==
  [][\A j \in Jobs :
       (Active(j) /\ wf[j].pc \in DbPcs(j)) =>
         LET write == Write(j, wf[j])
         IN  /\ ApplyUpdate(ApplyUpdate(row[j], write), write) = ApplyUpdate(row[j], write)
             /\ (StepName(j, wf[j]) \in effects[j] /\ patches' = patches
                 /\ route' = route) => row'[j] = row[j]]_vars

\* the update of a progress step of the second parse wave was made, the
\* execution was interrupted, and the step is executed again
ProgressStepExecutedAgain ==
  /\ IsPdf(1) /\ crashes = 1
  /\ wf[1].pc = "update-progress-parsing-batch" /\ wf[1].batchIndex = 1
  /\ StepName(1, wf[1]) \in effects[1]
  /\ StepName(1, wf[1]) \notin DOMAIN log[1]
  /\ row[1].progress = 50

(***************************************************************************)
(* The update the routes make after creating the workflow.                 *)
(***************************************************************************)
\* C30: the update a POST route makes after workflow.create changes workflowId
\* and nothing else of the job record: whatever steps the workflow has executed
\* by then, the status, currentStage, progress, results and errorMessage it
\* wrote stay as they are.
RouteUpdateKeepsWorkflowWrites ==
  [][\A j \in Jobs :
       (route[j] = "created" /\ route'[j] = "done") =>
         /\ row'[j] = [row[j] EXCEPT !.workflowId = "instance"]
         /\ row'[j].status = row[j].status
         /\ row'[j].currentStage = row[j].currentStage
         /\ row'[j].progress = row[j].progress]_vars

\* the route made its update after the workflow had written the progress of
\* the first parse wave, which is still on the record
RouteUpdatedAfterFirstSteps ==
  /\ IsPdf(1) /\ route[1] = "done" /\ row[1].workflowId = "instance"
  /\ wf[1].pc = "parse-pages" /\ wf[1].batchIndex = 1
  /\ row[1].status = "in_progress" /\ row[1].currentStage = "parsing"
  /\ row[1].progress = ParsingProgress(0, 2)

=============================================================================
